---- MODULE Spec2Model ----
(***************************************************************************)
(* pica-clipboard: the content store (core/database.rs), the clipboard     *)
(* monitor (core/clipboard.rs) and the manager's event loop                *)
(* (core/manager.rs), wired as in main.rs.                                 *)
(*                                                                         *)
(* Strings are sequences of one-character strings, so that trimming and    *)
(* tokenising are computed.  Option<T> is a sequence of length 0 or 1.     *)
(* Result<T> is a record [ok, val].                                        *)
(*                                                                         *)
(* Specifications:                                                         *)
(*   SpecStore   the store's operations called by one caller;              *)
(*   SpecSnippets  categories and snippets of a store over restarts;       *)
(*   SpecConc    insert_history called by threads sharing the store;       *)
(*   SpecQueue   monitor, channels and manager, the user copying texts     *)
(*               and sending the queue's commands;                         *)
(*   SpecSearch  the same system, the user searching;                      *)
(*   SpecPaste   the same system, the user pasting history entries;        *)
(*   SpecExit    the same system, the user sending Exit;                   *)
(*   SpecScript  the same system, the user following a fixed script;       *)
(*   SpecBlank   a script with a blank text between two texts;             *)
(*   SpecImages  the monitor's ticks in time, the user copying an image    *)
(*               twice.                                                    *)
(***************************************************************************)
EXTENDS Integers, Sequences, FiniteSets, Bags, TLC

\* ------------------------------------------------------------------ bounds

\* Largest value of the store's clock (seconds since the epoch, scaled).
MaxTime == 2
\* Largest id the history table's AUTOINCREMENT sequence may reach.
MaxId == 3
\* Threads that call insert_history on clones of one Database.
NThreads == 2
\* Capacity of the capture channel, mpsc::channel(100), scaled.
ChanCap == 2
\* Capacity of the command channel, mpsc::channel(100), scaled.
CmdCap == 2
\* Commands the user leaves waiting in the channel where commands are sent
\* at will.
CmdBacklog == 1
\* Longest paste queue a capture is appended to.
MaxQueue == 2
\* LIMIT 50 of search_history, scaled, where more rows match than it lets
\* through.
SearchLimitScaled == 2

\* ------------------------------------------------------- program constants

\* LIMIT 50 of search_history.
SearchLimit == 50
\* get_recent_history(50, 0) of Manager::refresh_history.
HistoryPage == 50

\* ------------------------------------------------------------------ values

None == <<>>
Some(x) == <<x>>

Ok(v) == [ok |-> TRUE, val |-> v]
Err == [ok |-> FALSE, val |-> <<>>]

SP == " "

Min(a, b) == IF a <= b THEN a ELSE b

\* enum ClipboardType { Text = 1, Image = 2, File = 3 }
TypeText == 1
TypeImage == 2
TypeFile == 3

\* impl From<i64> for ClipboardType
ClipboardTypeFrom(value) ==
    IF value \in {TypeText, TypeImage, TypeFile} THEN value ELSE TypeText

\* ------------------------------------------------------------------- text

RECURSIVE TrimStart(_)
TrimStart(s) ==
    IF s # <<>> /\ Head(s) = SP THEN TrimStart(Tail(s)) ELSE s

RECURSIVE TrimEnd(_)
TrimEnd(s) ==
    IF s # <<>> /\ s[Len(s)] = SP THEN TrimEnd(SubSeq(s, 1, Len(s) - 1)) ELSE s

\* utils::text::clean_text: text.trim().to_string()
clean_text(text) == TrimEnd(TrimStart(text))

\* ClipboardMonitor::compute_hash: the hex SHA-256 digest of the bytes, taken
\* as collision free; the digest of no input is the empty string.
compute_hash(data) == <<"sha256">> \o data

\* The words of a string as the full-text index sees them: the maximal runs
\* of non-separator characters.
RECURSIVE TokensFrom(_, _)
TokensFrom(s, cur) ==
    IF s = <<>> THEN (IF cur = <<>> THEN {} ELSE {cur})
    ELSE IF Head(s) = SP
         THEN (IF cur = <<>> THEN {} ELSE {cur}) \cup TokensFrom(Tail(s), <<>>)
         ELSE TokensFrom(Tail(s), Append(cur, Head(s)))

Tokens(s) == TokensFrom(s, <<>>)

\* ------------------------------------------------------------ the store

\* A row of history_fts: the rowid and the two indexed columns.
FtsEntry(row) ==
    [rowid |-> row.id, content |-> row.content, source_app |-> row.source_app]

FtsInsert(fts, row) == fts (+) SetToBag({FtsEntry(row)})

FtsDelete(fts, row) == fts (-) SetToBag({FtsEntry(row)})

\* CREATE TRIGGER history_ai AFTER INSERT ON history
history_ai(fts, new) == FtsInsert(fts, new)

\* A delete trigger that leaves the index alone.
history_ad_skip(fts, old) == fts

\* CREATE TRIGGER history_ad AFTER DELETE ON history

history_ad(fts, old) == FtsDelete(fts, old)

\* An update trigger that does not remove the old entry.
history_au_keep_old(fts, old, new) == FtsInsert(fts, new)

\* CREATE TRIGGER history_au AFTER UPDATE ON history

history_au(fts, old, new) == FtsInsert(FtsDelete(fts, old), new)

\* A connection to a database nothing was stored in: empty relations, the
\* AUTOINCREMENT sequences at 0.  path: the file, or None in memory;
\* foreign_keys: the connection's foreign_keys pragma.
NewConnection(path, foreign_keys) ==
    [history |-> {}, seq |-> 0, fts |-> EmptyBag,
     categories |-> {}, cat_seq |-> 0, snippets |-> {}, snip_seq |-> 0,
     path |-> path, foreign_keys |-> foreign_keys]

\* INSERT INTO categories (name, icon, sort_order) VALUES (..)
InsertCategory(c, name, icon, sort_order) ==
    LET id == c.cat_seq + 1
    IN [c EXCEPT !.categories =
                   @ \cup {[id |-> id, name |-> name, icon |-> Some(icon),
                            sort_order |-> sort_order, is_locked |-> FALSE]},
                 !.cat_seq = id]

\* The three INSERTs of init_schema.
SeedCategories(c) ==
    InsertCategory(
      InsertCategory(
        InsertCategory(c, "General", "U+1F4DD", 0), "Passwords", "U+1F511", 1),
      "Code", "U+1F4BB", 2)

\* Database::init_schema on connection c: the CREATE .. IF NOT EXISTS
\* statements keep what is there; the default categories are inserted when
\* count(*) of categories is 0.
InitSchemaOn_always(c) == SeedCategories(c)

InitSchemaOn(c) ==
    IF Cardinality(c.categories) = 0 THEN SeedCategories(c) ELSE c

\* Database::new(path): the connection to the file's database, now c, with
\* foreign_keys ON, then init_schema.
DatabaseNew(c) == InitSchemaOn([c EXCEPT !.foreign_keys = TRUE])

\* Database::open_in_memory: a new connection, its foreign_keys pragma left
\* at the default of the SQLite library the build links, then init_schema.
open_in_memory(default_foreign_keys) ==
    InitSchemaOn(NewConnection(None, default_foreign_keys))

\* The store of a first start: Database::new on a path without a file.
init_schema == DatabaseNew(NewConnection(Some("db"), TRUE))

RowIds(c) == {r.id : r \in c.history}

RowById(c, id) == CHOOSE r \in c.history : r.id = id

MinOf(S) == CHOOSE x \in S : \A y \in S : x <= y

\* SELECT id FROM history WHERE content_hash = ? (query_row, optional)
SelectIdByHash(c, h) ==
    LET ids == {r.id : r \in {x \in c.history : x.content_hash = h}}
    IN IF ids = {} THEN None ELSE Some(MinOf(ids))

\* Database::row_to_clipboard_item
row_to_clipboard_item(row) ==
    [id |-> Some(row.id), type_ |-> ClipboardTypeFrom(row.type),
     content |-> row.content, content_hash |-> row.content_hash,
     source_app |-> row.source_app, created_at |-> row.created_at,
     is_pinned |-> row.is_pinned]

\* UPDATE history SET column = value WHERE id = ?: every row with that id,
\* each firing history_au.
RECURSIVE FtsAfterUpdates(_, _)
FtsAfterUpdates(fts, pairs) ==
    IF pairs = {} THEN fts
    ELSE LET p == CHOOSE q \in pairs : TRUE
         IN FtsAfterUpdates(history_au(fts, p[1], p[2]), pairs \ {p})

UpdateWhereId(c, id, column, value) ==
    LET olds == {r \in c.history : r.id = id}
        upd(r) == IF column = "created_at" THEN [r EXCEPT !.created_at = value]
                  ELSE [r EXCEPT !.is_pinned = value]
    IN [c EXCEPT !.history = (c.history \ olds) \cup {upd(r) : r \in olds},
                 !.fts = FtsAfterUpdates(c.fts, {<<r, upd(r)>> : r \in olds})]

\* Database::get_item_by_id
get_item_by_id_first(c, id) ==
    IF c.history # {}
    THEN Ok(Some(row_to_clipboard_item(RowById(c, MinOf(RowIds(c))))))
    ELSE Ok(None)

get_item_by_id(c, id) ==
    IF id \in RowIds(c) THEN Ok(Some(row_to_clipboard_item(RowById(c, id))))
    ELSE Ok(None)

\* INSERT INTO history (type, content, content_hash, source_app, is_pinned):
\* the id is the AUTOINCREMENT sequence's next, created_at the column's
\* default, the store's time t.
InsertRow_rowid(c, item, t) ==
    LET id == IF c.history = {} THEN 1
              ELSE 1 + (CHOOSE x \in {r.id : r \in c.history} :
                          \A r \in c.history : x >= r.id)
        new == [id |-> id, type |-> item.type_, content |-> item.content,
                content_hash |-> item.content_hash,
                source_app |-> item.source_app, created_at |-> t,
                is_pinned |-> item.is_pinned]
    IN [conn |-> [c EXCEPT !.history = @ \cup {new}, !.seq = id,
                           !.fts = history_ai(@, new)],
        ret |-> Ok(id)]

InsertRow(c, item, t) ==
    LET id == c.seq + 1
        new == [id |-> id, type |-> item.type_, content |-> item.content,
                content_hash |-> item.content_hash,
                source_app |-> item.source_app, created_at |-> t,
                is_pinned |-> item.is_pinned]
    IN [conn |-> [c EXCEPT !.history = @ \cup {new}, !.seq = id,
                           !.fts = history_ai(@, new)],
        ret |-> Ok(id)]

\* insert_history without its check for duplicates.
insert_history_no_dedup(c, item, t) == InsertRow(c, item, t)

\* insert_history that returns the duplicate's id without its UPDATE.
insert_history_keep_time(c, item, t) ==
    LET existing == SelectIdByHash(c, item.content_hash)
    IN IF existing # None
       THEN [conn |-> c, ret |-> Ok(existing[1])]
       ELSE InsertRow(c, item, t)

\* Database::insert_history at store time t: [conn, ret].

insert_history(c, item, t) ==
    LET existing == SelectIdByHash(c, item.content_hash)
    IN IF existing # None
       THEN LET id == existing[1]
            IN [conn |-> UpdateWhereId(c, id, "created_at", t),
                ret |-> Ok(id)]
       ELSE InsertRow(c, item, t)

\* ORDER BY is_pinned DESC, created_at ASC.
MayPrecede_asc(r1, r2) ==
    \/ r1.is_pinned /\ ~r2.is_pinned
    \/ r1.is_pinned = r2.is_pinned /\ r1.created_at <= r2.created_at

\* ORDER BY is_pinned DESC, created_at DESC: r1 may come before r2.
MayPrecede(r1, r2) ==
    \/ r1.is_pinned /\ ~r2.is_pinned
    \/ r1.is_pinned = r2.is_pinned /\ r1.created_at >= r2.created_at

\* The orders in which the engine may return rows under that ORDER BY: rows
\* with equal keys come in an order SQL leaves open.
RECURSIVE Ordered(_)
Ordered(rows) ==
    IF rows = {} THEN {<<>>}
    ELSE UNION {{<<r>> \o s : s \in Ordered(rows \ {r})} :
                  r \in {x \in rows : \A y \in rows : MayPrecede(x, y)}}

\* LIMIT limit OFFSET offset
Page(s, limit, offset) ==
    [i \in 1..(IF Len(s) > offset THEN Min(limit, Len(s) - offset) ELSE 0)
        |-> s[offset + i]]

Items(s) == [i \in 1..Len(s) |-> row_to_clipboard_item(s[i])]

\* Database::get_recent_history: the results the query may give.
get_recent_history(c, limit, offset) ==
    {Items(Page(s, limit, offset)) : s \in Ordered(c.history)}

\* history_fts MATCH query: every word of the query is a word of one of the
\* indexed columns; a query without a word is a syntax error.
IndexedWords(e) ==
    Tokens(e.content) \cup (IF e.source_app = None THEN {}
                            ELSE Tokens(e.source_app[1]))

FtsMatch(fts, query) ==
    {e.rowid : e \in {x \in BagToSet(fts) : Tokens(query) \subseteq IndexedWords(x)}}

\* The SELECT of search_history with LIMIT limit: the rows whose id the
\* subquery on history_fts gives, under the outer ORDER BY is_pinned DESC,
\* created_at DESC, cut after limit rows.  The subquery's ORDER BY rank
\* orders the ids inside IN (..), which is a set to the outer query.
SearchSelect(c, query, limit) ==
    IF Tokens(query) = {} THEN {Err}
    ELSE {Ok(Items(Page(s, limit, 0))) :
            s \in Ordered({r \in c.history : r.id \in FtsMatch(c.fts, query)})}

\* Database::search_history: Err, or the results the query may give.
search_history(c, query) == SearchSelect(c, query, SearchLimit)

\* The words of an index entry's columns, counted as often as they occur,
\* and the occurrences of word among them.
WordStarts(s) == {i \in 1..Len(s) : s[i] # SP /\ (i = 1 \/ s[i - 1] = SP)}

Occurrences(s, word) ==
    Cardinality({i \in WordStarts(s) :
                   /\ i + Len(word) - 1 <= Len(s)
                   /\ SubSeq(s, i, i + Len(word) - 1) = word
                   /\ (i + Len(word) - 1 = Len(s) \/ s[i + Len(word)] = SP)})

EntryText(e) ==
    IF e.source_app = None THEN e.content ELSE e.content \o <<SP>> \o e.source_app[1]

\* ORDER BY rank for a query of one word: rank is bm25 with the index's
\* defaults (k1 = 1.2, b = 0.75), so of two entries holding the word the
\* one with more occurrences for its length relative to the average length
\* ranks higher.  e1 ranks strictly higher than e2 in index fts when
\*   tf1 * (0.25 + 0.75 * len2 / avg) > tf2 * (0.25 + 0.75 * len1 / avg),
\* here multiplied out to integers (avg = total / n).
RanksHigher(fts, e1, e2, word) ==
    LET entries == BagToSet(fts)
        n == Cardinality(entries)
        len(e) == Cardinality(WordStarts(EntryText(e)))
        total == LET RECURSIVE Sum(_)
                     Sum(S) == IF S = {} THEN 0
                               ELSE LET x == CHOOSE y \in S : TRUE
                                    IN len(x) + Sum(S \ {x})
                 IN Sum(entries)
        tf(e) == Occurrences(EntryText(e), word)
    IN tf(e1) * (total + 3 * n * len(e2)) > tf(e2) * (total + 3 * n * len(e1))

RECURSIVE FtsAfterDeletes(_, _)
FtsAfterDeletes(fts, olds) ==
    IF olds = {} THEN fts
    ELSE LET o == CHOOSE r \in olds : TRUE
         IN FtsAfterDeletes(history_ad(fts, o), olds \ {o})

\* Database::delete_history
delete_history(c, id) ==
    LET olds == {r \in c.history : r.id = id}
    IN [conn |-> [c EXCEPT !.history = @ \ olds,
                           !.fts = FtsAfterDeletes(@, olds)],
        ret |-> Ok(<<>>)]

\* Database::toggle_pin: query_row fails when no row has the id.
toggle_pin_set(c, id) ==
    IF id \notin RowIds(c) THEN [conn |-> c, ret |-> Err]
    ELSE [conn |-> UpdateWhereId(c, id, "is_pinned", TRUE), ret |-> Ok(TRUE)]

toggle_pin(c, id) ==
    IF id \notin RowIds(c) THEN [conn |-> c, ret |-> Err]
    ELSE LET current == RowById(c, id).is_pinned
             new_state == ~current
         IN [conn |-> UpdateWhereId(c, id, "is_pinned", new_state),
             ret |-> Ok(new_state)]

\* ------------------------------------------------ categories and snippets

CategoryIds(c) == {cat.id : cat \in c.categories}

\* The Snippet a caller passes to add_snippet.
NewSnippet(category_id, title, content, is_masked, usage_count, updated_at) ==
    [id |-> None, category_id |-> category_id, title |-> title,
     content |-> content, is_masked |-> is_masked,
     usage_count |-> usage_count, updated_at |-> updated_at]

\* Database::add_snippet at time t: INSERT INTO snippets (category_id, title,
\* content, is_masked, usage_count); id from AUTOINCREMENT, updated_at from
\* the column's default.  The FOREIGN KEY on category_id is enforced when the
\* connection's foreign_keys pragma is on.
add_snippet(c, snippet, t) ==
    IF c.foreign_keys /\ snippet.category_id \notin CategoryIds(c)
    THEN [conn |-> c, ret |-> Err]
    ELSE LET id == c.snip_seq + 1
             row == [id |-> id, category_id |-> snippet.category_id,
                     title |-> snippet.title, content |-> snippet.content,
                     is_masked |-> snippet.is_masked,
                     usage_count |-> snippet.usage_count, updated_at |-> t]
         IN [conn |-> [c EXCEPT !.snippets = @ \cup {row}, !.snip_seq = id],
             ret |-> Ok(id)]

\* Deleting category id: DELETE FROM categories WHERE id = ?.  The snippets'
\* FOREIGN KEY .. ON DELETE CASCADE removes the snippets referencing it when
\* the connection's foreign_keys pragma is on.
delete_category(c, id) ==
    [conn |-> [c EXCEPT
                 !.categories = {cat \in @ : cat.id # id},
                 !.snippets = IF c.foreign_keys
                              THEN {sn \in @ : sn.category_id # id}
                              ELSE @],
     ret |-> Ok(<<>>)]

\* ---------------------------------------------------------------- state

VARIABLES
    conn,   \* Database.conn: the connection's relations
    now,    \* the clock strftime('%s','now') and Utc::now() read
    lock,   \* Database.conn's Mutex: the thread holding it, or None
    th,     \* the threads sharing clones of one Database: where each is in
            \* its insert_history call
    clipboard,      \* the system clipboard: [kind, data]
    files,          \* the image cache directory: a set of [path, data]
    last_hash,      \* ClipboardMonitor.last_hash
    clip_chan,      \* the capture channel: items sent and not yet received
    cmd_chan,       \* the command channel
    paste_queue,    \* Manager.paste_queue
    is_queue_mode,  \* Manager.is_queue_mode
    pc,             \* where Manager::run is: "start", "idle" (in select!),
                    \* "sleep" and "keys" (inside perform_paste), "exited"
    cur,            \* the item perform_paste was called with and the command
                    \* that called it, or None
    calls,          \* the calls on the UiHandle, the clipboard and the
                    \* keyboard made by the handler in progress, or by the
                    \* last one
    script,         \* what a scripted user has still to do
    attempts,       \* history: the fingerprints the monitor called try_send
                    \* for, in order; under SpecImages every tick, with
                    \* its second and the item it called try_send for
    replayed        \* history: the contents perform_paste was called with

storeVars == <<conn, now>>
concVars == <<lock, th>>
monitorVars == <<files, last_hash>>
managerVars == <<paste_queue, is_queue_mode, pc, cur, calls>>
sysVars ==
    <<clipboard, files, last_hash, clip_chan, cmd_chan, paste_queue,
      is_queue_mode, pc, cur, calls>>
histVars == <<script, attempts, replayed>>
vars ==
    <<conn, now, lock, th, clipboard, files, last_hash, clip_chan, cmd_chan,
      paste_queue, is_queue_mode, pc, cur, calls, script, attempts, replayed>>

\* The clock moves on between any two steps.
ClockTick ==
    /\ now < MaxTime
    /\ now' = now + 1

\* --------------------------------------------- the system before it runs

ClipNone == [kind |-> "none", data |-> <<>>]
ClipText(text) == [kind |-> "text", data |-> text]
ClipImage(bytes) == [kind |-> "image", data |-> bytes]

\* main: the channels are empty, ClipboardMonitor::new and Manager::new have
\* run; the clipboard holds nothing the monitor can read.
InitSystem ==
    /\ clipboard = ClipNone
    /\ files = {}
    /\ last_hash = <<>>
    /\ clip_chan = <<>>
    /\ cmd_chan = <<>>
    /\ paste_queue = <<>>
    /\ is_queue_mode = FALSE
    /\ pc = "start"
    /\ cur = None
    /\ calls = <<>>

InitHistory ==
    /\ script = <<>>
    /\ attempts = <<>>
    /\ replayed = <<>>

\* ------------------------------------------- threads sharing the store

Threads == 1..NThreads

\* A thread outside insert_history; ret is what its last call returned.
ThreadIdle == [pc |-> "idle", item |-> None, existing |-> None, ret |-> None]

\* Mutex::lock returns once no thread holds the mutex.
MutexFree_always(l) == TRUE

MutexFree(l) == l = None

\* ------------------------------------ the store under a single caller

\* struct ClipboardItem as a caller builds it (id: None; created_at is the
\* caller's to set and the store does not read it).
NewItem(type_, content, hash, source_app, is_pinned) ==
    [id |-> None, type_ |-> type_, content |-> content, content_hash |-> hash,
     source_app |-> source_app, created_at |-> 0, is_pinned |-> is_pinned]

\* The entries callers insert: the second has the fingerprint of the first
\* and differs from it in every other field.
StoreItems ==
    {NewItem(TypeText, <<"a">>, compute_hash(<<"a">>), None, FALSE),
     NewItem(TypeImage, <<"b">>, compute_hash(<<"a">>), Some(<<"b">>), TRUE),
     NewItem(TypeText, <<"a", SP, "b">>, compute_hash(<<"a", SP, "b">>),
             None, FALSE),
     NewItem(TypeFile, <<"b">>, compute_hash(<<"b">>), Some(<<"a">>), FALSE)}

\* Search queries: of one word, of two words, and without a word.
Queries == {<<"a">>, <<"b">>, <<"b", SP, "a">>, <<SP>>}

\* Limits and offsets of get_recent_history: no row, one row, fewer rows
\* than a full table has and the page the manager asks for; from the first
\* row, from the second and from beyond the last.
Limits == {0, 1, MaxId - 1, HistoryPage}
Offsets == {0, 1, MaxId}

RowsWithHash(c, h) == {r \in c.history : r.content_hash = h}

\* A caller's insert_history(item); one that would create a row waits while
\* the id sequence is at its bound.
StoreInsertHistory ==
    /\ \E item \in StoreItems :
         /\ RowsWithHash(conn, item.content_hash) # {} \/ conn.seq < MaxId
         /\ conn' = insert_history(conn, item, now).conn
    /\ UNCHANGED now

StoreDeleteHistory ==
    /\ \E id \in 1..MaxId : conn' = delete_history(conn, id).conn
    /\ UNCHANGED now

StoreTogglePin ==
    /\ \E id \in 1..MaxId : conn' = toggle_pin(conn, id).conn
    /\ UNCHANGED now

\* Database::open_in_memory, then calls by one caller.
InitStore ==
    /\ conn = init_schema
    /\ now = 0
    /\ lock = None
    /\ th = [t \in Threads |-> ThreadIdle]
    /\ InitSystem
    /\ InitHistory

NextStore ==
    \/ ClockTick /\ UNCHANGED <<conn, concVars, sysVars, histVars>>
    \/ StoreInsertHistory /\ UNCHANGED <<concVars, sysVars, histVars>>
    \/ StoreDeleteHistory /\ UNCHANGED <<concVars, sysVars, histVars>>
    \/ StoreTogglePin /\ UNCHANGED <<concVars, sysVars, histVars>>

SpecStore == InitStore /\ [][NextStore]_vars

\* ------------------------------------------------------ store properties

\* C1: after any sequence of insert_history, delete_history and toggle_pin
\* calls no two history rows have the same fingerprint (content_hash).
C1_OneRowPerFingerprint ==
    \A r1, r2 \in conn.history : r1.content_hash = r2.content_hash => r1 = r2

\* Rows of two fingerprints, after a delete (an id is gone), a pin toggle
\* (the unpinned text entry's row is pinned) and a repeated insert (the row
\* stored first is fresher than the one stored after it).
C1_Witness ==
    /\ RowIds(conn) # 1..conn.seq
    /\ \E r1, r2 \in conn.history :
         /\ r1.content_hash # r2.content_hash
         /\ r1.id < r2.id
         /\ r2.created_at < r1.created_at
         /\ r1.type = TypeText /\ r1.is_pinned

\* What C2 says of insert_history(item) at time t in store c, r being what
\* the call gives.
InsertHistoryPost(c, item, t, r) ==
    LET old == RowsWithHash(c, item.content_hash)
    IN IF old # {}
       THEN \E row \in old :
              /\ r.ret = Ok(row.id)
              /\ Cardinality(r.conn.history) = Cardinality(c.history)
              /\ r.conn.history =
                   (c.history \ {row}) \cup {[row EXCEPT !.created_at = t]}
       ELSE \E new \in r.conn.history :
              /\ r.ret = Ok(new.id)
              /\ new.id \notin RowIds(c)
              /\ new.content_hash = item.content_hash
              /\ r.conn.history = c.history \cup {new}
              /\ Cardinality(r.conn.history) = Cardinality(c.history) + 1

\* C2: insert_history of an entry whose fingerprint exists returns the
\* existing row's id, leaves the number of rows unchanged, sets that row's
\* created_at to the time of this insert and leaves the row's id, kind,
\* content, source application and pinned flag unchanged; for a fingerprint
\* not yet present it adds exactly one row and returns its new id.
C2_InsertHistoryEffect ==
    \A item \in StoreItems :
      InsertHistoryPost(conn, item, now, insert_history(conn, item, now))

\* The row r1 was stored before r2 and is fresher than r2, so a later insert
\* of its fingerprint refreshed it; it is still the text entry's row, and
\* the entry of its fingerprint and another kind, content, source and pinned
\* flag is inserted next, later than the refresh.
C2_Witness ==
    \E r1, r2 \in conn.history :
      /\ r1.id < r2.id
      /\ r2.created_at < r1.created_at
      /\ r1.created_at < now
      /\ r1.type = TypeText /\ r1.content = <<"a">>
      /\ r1.source_app = None /\ ~r1.is_pinned

\* Every row once, as get_recent_history returns rows, in an order the
\* listing's ORDER BY allows.
FullListings ==
    LET rows == {row_to_clipboard_item(r) : r \in conn.history}
        n == Cardinality(rows)
    IN {s \in [1..n -> rows] :
          /\ \A i, j \in 1..n : i # j => s[i] # s[j]
          /\ \A i, j \in 1..n : i < j =>
               /\ s[i].is_pinned \/ ~s[j].is_pinned
               /\ s[i].is_pinned = s[j].is_pinned =>
                    s[i].created_at >= s[j].created_at}

\* C3: the list get_recent_history(limit, offset) returns has every pinned
\* row before every unpinned row, created_at non-increasing within the pinned
\* and within the unpinned rows, and is the slice [offset, offset+limit) of
\* the full history in that order.
C3_RecentHistoryOrdered ==
    LET fulls == FullListings
    IN \A limit \in Limits, offset \in Offsets :
         \A s \in get_recent_history(conn, limit, offset) :
           /\ \A i, j \in 1..Len(s) : i < j =>
                /\ s[i].is_pinned \/ ~s[j].is_pinned
                /\ s[i].is_pinned = s[j].is_pinned =>
                     s[i].created_at >= s[j].created_at
           /\ \E full \in fulls :
                /\ Len(s) = (IF offset >= Len(full) THEN 0
                             ELSE Min(limit, Len(full) - offset))
                /\ \A i \in 1..Len(s) : s[i] = full[offset + i]

\* Three rows: the pinned text row, toggled since it was stored, is listed
\* first though it is older than the unpinned row after it, and the page of
\* two at offset 1 is the rest.
C3_Witness ==
    \E s \in get_recent_history(conn, HistoryPage, 0) :
      /\ Len(s) = 3
      /\ s[1].type_ = TypeText
      /\ s[1].is_pinned /\ ~s[2].is_pinned /\ ~s[3].is_pinned
      /\ s[1].created_at < s[2].created_at
      /\ s[2].created_at > s[3].created_at
      /\ \E p \in get_recent_history(conn, MaxId - 1, 1) : p = <<s[2], s[3]>>

\* The ids search_history returns for a query, in order.
FoundIds(res) == [i \in 1..Len(res.val) |-> res.val[i].id[1]]

\* The rows of c whose content or source application holds every word of q.
RowsWithWords(c, q) ==
    {x \in c.history :
       Tokens(q) \subseteq
         Tokens(x.content) \cup
           (IF x.source_app = None THEN {} ELSE Tokens(x.source_app[1]))}

\* Every successful search of c finds each row that holds the query's words
\* once, and nothing else.
SearchFindsRows(c) ==
    \A q \in Queries :
      \A res \in search_history(c, q) :
        res.ok =>
          LET ids == FoundIds(res)
          IN /\ \A i, j \in 1..Len(ids) : i # j => ids[i] # ids[j]
             /\ {ids[i] : i \in 1..Len(ids)} =
                  {r.id : r \in RowsWithWords(c, q)}

\* C4: the full-text index holds exactly one entry per history row and none
\* for absent rows; so after delete_history(id) no search_history query
\* returns the entry with that id, and a row whose timestamp a repeated
\* insert refreshed is found exactly once.
C4_IndexMatchesHistory ==
    /\ \A r \in conn.history : CopiesIn(FtsEntry(r), conn.fts) = 1
    /\ \A e \in BagToSet(conn.fts) : \E r \in conn.history : e = FtsEntry(r)
    /\ SearchFindsRows(conn)
    /\ \A id \in RowIds(conn) :
         LET after == delete_history(conn, id).conn
         IN \A q \in Queries :
              \A res \in search_history(after, q) :
                res.ok => \A i \in 1..Len(res.val) : res.val[i].id # Some(id)

\* A row was deleted, another was refreshed by a repeated insert (it is
\* fresher than a row stored after it), and the query "b" finds two rows,
\* one by its content and one by its source application.
C4_Witness ==
    /\ RowIds(conn) # 1..conn.seq
    /\ \E r1, r2 \in conn.history : r1.id < r2.id /\ r2.created_at < r1.created_at
    /\ \E res \in search_history(conn, <<"b">>) : res.ok /\ Len(res.val) = 2

\* C24: every insert_history that creates a row returns an id greater than
\* every id assigned before, whether its row is still there or not; in
\* every step the id sequence does not fall, a row that was not there has
\* an id above the sequence, and a row that was there keeps its content and
\* fingerprint: no id comes back for other content.
C24_IdsNeverReused ==
    /\ [](/\ RowIds(conn) \subseteq 1..conn.seq
          /\ \A item \in StoreItems :
               RowsWithHash(conn, item.content_hash) = {} =>
                 LET r == insert_history(conn, item, now)
                 IN /\ r.ret.ok
                    /\ r.ret.val > conn.seq
                    /\ r.ret.val \notin RowIds(conn)
                    /\ RowById(r.conn, r.ret.val).content = item.content)
    /\ [][/\ conn'.seq >= conn.seq
          /\ \A r \in conn'.history :
               IF r.id \in RowIds(conn)
               THEN /\ RowById(conn, r.id).content = r.content
                    /\ RowById(conn, r.id).content_hash = r.content_hash
               ELSE r.id > conn.seq]_vars

\* The row with the highest id was deleted, and insert_history of content
\* without a row returns the id after it.
C24_Witness ==
    /\ conn.seq = 2
    /\ RowIds(conn) = {1}
    /\ \E item \in StoreItems :
         /\ RowsWithHash(conn, item.content_hash) = {}
         /\ insert_history(conn, item, now).ret = Ok(3)

\* The rows of c a search for query may find.
Matching(c, query) == {r \in c.history : r.id \in FtsMatch(c.fts, query)}

\* C21: search_history, its LIMIT scaled to SearchLimitScaled, returns no
\* more entries than the limit, each a row matching the query, pinned
\* entries first and fresher before older; and for a query of one word no
\* matching row left out ranks higher in the index than a row returned: the
\* entries returned are those the index ranks highest.
C21_MostRelevantReturned ==
    \A q \in {x \in Queries : Cardinality(Tokens(x)) = 1} :
      \A res \in SearchSelect(conn, q, SearchLimitScaled) :
        res.ok =>
          LET found == {RowById(conn, res.val[i].id[1]) : i \in 1..Len(res.val)}
              word == CHOOSE w \in Tokens(q) : TRUE
          IN /\ Len(res.val) <= SearchLimitScaled
             /\ found \subseteq Matching(conn, q)
             /\ \A i \in 1..(Len(res.val) - 1) :
                  MayPrecede(res.val[i], res.val[i + 1])
             /\ \A out \in Matching(conn, q) \ found :
                  \A r \in found :
                    ~RanksHigher(conn.fts, FtsEntry(out), FtsEntry(r), word)

\* C11: toggle_pin(id) on an existing row stores and returns the negation of
\* the row's pinned flag and changes no other column, no other row and not
\* the id sequence; a second toggle_pin(id) right after it returns the
\* original flag and gives back the rows as they were.
C11_TogglePinNegates ==
    \A id \in RowIds(conn) :
      LET old == RowById(conn, id)
          r == toggle_pin(conn, id)
          again == toggle_pin(r.conn, id)
      IN /\ r.ret = Ok(~old.is_pinned)
         /\ r.conn.history =
              (conn.history \ {old}) \cup {[old EXCEPT !.is_pinned = ~old.is_pinned]}
         /\ r.conn.seq = conn.seq
         /\ again.ret = Ok(old.is_pinned)
         /\ again.conn.history = conn.history

\* toggle_pin has pinned a row that was inserted unpinned, beside a row it
\* left alone.
C11_Witness ==
    /\ Cardinality(conn.history) >= 2
    /\ \E r \in conn.history : r.type = TypeText /\ r.is_pinned
    /\ \E r \in conn.history : r.type = TypeFile /\ ~r.is_pinned

\* -------------------------------------- categories, snippets and restarts

\* A category id no AUTOINCREMENT gives.
NoCategory == 0

\* The snippets callers add: of the first default category, of the first
\* category of a second seeding, and of no category.
Snippets ==
    {NewSnippet(1, <<"a">>, <<"b">>, FALSE, 0, 0),
     NewSnippet(MaxId + 1, <<"b">>, <<"a">>, TRUE, 1, 0),
     NewSnippet(NoCategory, <<"a">>, <<"a">>, FALSE, 0, 0)}

SnipAddSnippet ==
    \E snippet \in Snippets :
      /\ conn.snip_seq < MaxId - 1
      /\ conn' = add_snippet(conn, snippet, now).conn
      /\ UNCHANGED now

SnipDeleteCategory ==
    \E id \in CategoryIds(conn) :
      /\ conn' = delete_category(conn, id).conn
      /\ UNCHANGED now

SnipInsertHistory ==
    /\ conn.seq < 1
    /\ conn' = insert_history(conn,
                  NewItem(TypeText, <<"a">>, compute_hash(<<"a">>), None, FALSE),
                  now).conn
    /\ UNCHANGED now

\* The process ends and starts again: Database::new on the file.  A store
\* in memory ends with its process.
SnipRestart ==
    /\ conn.path # None
    /\ conn.cat_seq <= MaxId
    /\ conn' = DatabaseNew(conn)
    /\ conn' # conn
    /\ UNCHANGED now

\* The store of Database::new on a new file, or of open_in_memory under
\* either default of the foreign_keys pragma.
InitSnippets ==
    /\ conn \in {init_schema} \cup {open_in_memory(fk) : fk \in BOOLEAN}
    /\ now = 0
    /\ lock = None
    /\ th = [t \in Threads |-> ThreadIdle]
    /\ InitSystem
    /\ InitHistory

NextSnippets ==
    \/ ClockTick /\ UNCHANGED <<conn, concVars, sysVars, histVars>>
    \/ SnipAddSnippet /\ UNCHANGED <<concVars, sysVars, histVars>>
    \/ SnipDeleteCategory /\ UNCHANGED <<concVars, sysVars, histVars>>
    \/ SnipInsertHistory /\ UNCHANGED <<concVars, sysVars, histVars>>
    \/ SnipRestart /\ UNCHANGED <<concVars, sysVars, histVars>>

SpecSnippets == InitSnippets /\ [][NextSnippets]_vars

DefaultRows(seq) ==
    {[id |-> seq + 1, name |-> "General", icon |-> Some("U+1F4DD"),
      sort_order |-> 0, is_locked |-> FALSE],
     [id |-> seq + 2, name |-> "Passwords", icon |-> Some("U+1F511"),
      sort_order |-> 1, is_locked |-> FALSE],
     [id |-> seq + 3, name |-> "Code", icon |-> Some("U+1F4BB"),
      sort_order |-> 2, is_locked |-> FALSE]}

\* C13: init_schema inserts the three default categories (General,
\* Passwords, Code with sort_order 0, 1, 2) exactly when the category
\* relation is empty; on a store with a category it changes nothing; a new
\* store has exactly the three, and initialising again keeps exactly those.
C13_SeedOnlyWhenEmpty ==
    LET r == InitSchemaOn(conn)
    IN /\ conn.categories # {} => r = conn
       /\ conn.categories = {} =>
            r = [conn EXCEPT !.categories = DefaultRows(conn.cat_seq),
                             !.cat_seq = conn.cat_seq + 3]
       /\ InitSchemaOn(r) = r
       /\ \A c \in {init_schema} \cup {open_in_memory(fk) : fk \in BOOLEAN} :
            c.categories = DefaultRows(0) /\ InitSchemaOn(c) = c

\* A store holding a history row and a snippet whose categories were all
\* deleted and then seeded a second time.
C13_Witness ==
    /\ conn.cat_seq > 3
    /\ Cardinality(conn.categories) = 3
    /\ conn.history # {}
    /\ conn.snippets # {}

\* ------------------------------- insert_history called by several threads

\* The entries the threads insert: two of one fingerprint, one of another.
ThreadItems == {i \in StoreItems : i.type_ # TypeFile}

\* A thread calls insert_history(item): it goes for the mutex.
ThreadCall(t) ==
    /\ th[t].pc = "idle"
    /\ \E item \in ThreadItems :
         /\ RowsWithHash(conn, item.content_hash) # {} \/ conn.seq < MaxId
         /\ th' = [th EXCEPT ![t] = [pc |-> "lock", item |-> Some(item),
                                     existing |-> None, ret |-> None]]
    /\ UNCHANGED <<conn, now, lock>>

\* let conn = self.conn.lock().unwrap()
ThreadLock(t) ==
    /\ th[t].pc = "lock"
    /\ MutexFree(lock)
    /\ lock' = Some(t)
    /\ th' = [th EXCEPT ![t].pc = "select"]
    /\ UNCHANGED <<conn, now>>

\* let existing: Option<i64> = conn.query_row(...).optional()?
ThreadSelect(t) ==
    /\ th[t].pc = "select"
    /\ th' = [th EXCEPT ![t].pc = "write",
                        ![t].existing =
                            SelectIdByHash(conn, th[t].item[1].content_hash)]
    /\ UNCHANGED <<conn, now, lock>>

\* The UPDATE or the INSERT, and the return, which drops the guard.
ThreadWrite(t) ==
    /\ th[t].pc = "write"
    /\ LET r == IF th[t].existing # None
                THEN [conn |-> UpdateWhereId(conn, th[t].existing[1],
                                             "created_at", now),
                      ret |-> Ok(th[t].existing[1])]
                ELSE InsertRow(conn, th[t].item[1], now)
       IN /\ conn' = r.conn
          /\ th' = [th EXCEPT ![t].pc = "idle", ![t].ret = Some(r.ret)]
    /\ lock' = None
    /\ UNCHANGED now

InitConc == InitStore

NextConc ==
    \/ ClockTick /\ UNCHANGED <<conn, concVars, sysVars, histVars>>
    \/ \E t \in Threads : ThreadCall(t) /\ UNCHANGED <<sysVars, histVars>>
    \/ \E t \in Threads : ThreadLock(t) /\ UNCHANGED <<sysVars, histVars>>
    \/ \E t \in Threads : ThreadSelect(t) /\ UNCHANGED <<sysVars, histVars>>
    \/ \E t \in Threads : ThreadWrite(t) /\ UNCHANGED <<sysVars, histVars>>

SpecConc == InitConc /\ [][NextConc]_vars

\* C7: concurrent insert_history calls on clones of one Database act as in
\* some serial order: the check for a fingerprint and the insert or update
\* that follows it are never interleaved with another call's (one thread at
\* most is between its lock and its return), each fingerprint inserted has
\* exactly one row, ids are those a serial run assigns, and every call that
\* has returned returned the id of the row of its entry's fingerprint.
C7_InsertsSerialized ==
    /\ \A t1, t2 \in Threads :
         th[t1].pc \in {"select", "write"} /\ th[t2].pc \in {"select", "write"}
           => t1 = t2
    /\ \A t \in Threads : th[t].pc \in {"select", "write"} => lock = Some(t)
    /\ \A r1, r2 \in conn.history : r1.content_hash = r2.content_hash => r1 = r2
    /\ RowIds(conn) = 1..conn.seq
    /\ \A t \in Threads :
         th[t].pc = "idle" /\ th[t].ret # None =>
           \E r \in conn.history :
             /\ th[t].ret = Some(Ok(r.id))
             /\ r.content_hash = th[t].item[1].content_hash

\* Two threads were in insert_history of entries of one fingerprint at the
\* same time (the second waiting for the first's mutex); both have returned
\* the id of its only row.
C7_Witness ==
    /\ \A t \in Threads : th[t].pc = "idle" /\ th[t].ret = Some(Ok(1))
    /\ th[1].item # th[2].item
    /\ Cardinality(conn.history) = 1

\* ------------------------------------------------- the clipboard monitor

\* ClipboardItem { id: None, source_app: None, is_pinned: false,
\* created_at: Utc::now().timestamp(), .. } as check_clipboard builds it.
CapturedItem(type_, content, hash, t) ==
    [id |-> None, type_ |-> type_, content |-> content, content_hash |-> hash,
     source_app |-> None, created_at |-> t, is_pinned |-> FALSE]

\* The capture channel's receiver is dropped when Manager::run returns.
Closed == pc = "exited"

\* Sender::try_send: the item is queued unless the channel is closed or
\* holds its capacity; it returns at once either way, and check_clipboard
\* discards what it returns.
try_send_unbounded(chan, item, closed) ==
    IF closed THEN chan ELSE Append(chan, item)

try_send(chan, item, closed) ==
    IF closed \/ Len(chan) >= ChanCap THEN chan ELSE Append(chan, item)

\* get_image_cache_dir().join(format!("img_{}.png", Utc::now().format(..))):
\* one name per second.
ImagePath_fixed(t) == <<"img.png">>

ImagePath(t) == <<"img_" \o ToString(t) \o ".png">>

\* img.save(&path): creates the file or replaces it.
SaveFile(fs, path, data) ==
    {f \in fs : f.path # path} \cup {[path |-> path, data |-> data]}

\* What check_clipboard hashes: the trimmed text, or the image's bytes.
Observed(clip) ==
    IF clip.kind = "text" THEN clean_text(clip.data) ELSE clip.data

\* check_clipboard finds new content: text that is not blank, or an image,
\* whose fingerprint is not last_hash.
NewContent_blank(clip, lh) ==
    /\ clip.kind \in {"text", "image"}
    /\ compute_hash(Observed(clip)) # lh

NewContent(clip, lh) ==
    /\ clip.kind \in {"text", "image"}
    /\ clip.kind = "text" => Observed(clip) # <<>>
    /\ compute_hash(Observed(clip)) # lh

\* self.last_hash = hash.clone()
SetLastHash_keep(lh, hash) == lh

SetLastHash(lh, hash) == hash

\* One tick of ClipboardMonitor::run: the sleep is over, check_clipboard
\* runs.  last_hash is set before the item is made.  saved: whether
\* save_image will return Ok (it does not when the buffer does not fit the
\* image's size or the disk refuses the file).
MonitorTick(saved) ==
    /\ IF NewContent(clipboard, last_hash)
       THEN LET data == Observed(clipboard)
                hash == compute_hash(data)
            IN /\ last_hash' = SetLastHash(last_hash, hash)
               /\ IF clipboard.kind = "text"
                  THEN /\ clip_chan' =
                            try_send(clip_chan,
                                     CapturedItem(TypeText, data, hash, now),
                                     Closed)
                       /\ UNCHANGED files
                  ELSE IF saved
                  THEN /\ files' = SaveFile(files, ImagePath(now), data)
                       /\ clip_chan' =
                            try_send(clip_chan,
                                     CapturedItem(TypeImage, ImagePath(now),
                                                  hash, now),
                                     Closed)
                  ELSE UNCHANGED <<files, clip_chan>>
       ELSE UNCHANGED <<last_hash, clip_chan, files>>
    /\ UNCHANGED <<clipboard, cmd_chan, managerVars, conn, now>>

\* Whether MonitorTick(saved), taken in this state, calls try_send.
TickSends(saved) ==
    /\ NewContent(clipboard, last_hash)
    /\ clipboard.kind = "image" => saved

\* ------------------------------------------------------------ the manager

\* A call on the UiHandle, the clipboard or the keyboard.
Call(op, arg) == [op |-> op, arg |-> arg]

\* enum AppCommand, without AddSnippet, which writes the snippets table only.
Cmd(op, arg) == [op |-> op, arg |-> arg]

\* format!("{}", b) of a bool.
BoolString(b) == IF b THEN "true" ELSE "false"

\* Manager::refresh_history: the call it makes, for each order the query
\* may return the page in.
refresh_history(c) ==
    {<<Call("update_history", items)>> :
        items \in get_recent_history(c, HistoryPage, 0)}

\* Manager::run waits in select! for a capture or a command.
ManagerReady_any == pc \in {"idle", "sleep", "keys"}

ManagerReady == pc = "idle"

\* Manager::run before the loop: the initial history is loaded.
ManagerStart ==
    /\ pc = "start"
    /\ \E cs \in refresh_history(conn) : calls' = cs
    /\ pc' = "idle"
    /\ UNCHANGED <<paste_queue, is_queue_mode, cur>>
    /\ UNCHANGED <<clipboard, clip_chan, cmd_chan, monitorVars, conn, now>>

\* if self.is_queue_mode { .. self.paste_queue.push_back(item.clone()) .. }
QueueAfterCapture_always(queue, item, mode) == Append(queue, item)

QueueAfterCapture(queue, item, mode) ==
    IF mode THEN Append(queue, item) ELSE queue

\* select! takes a capture: Manager::handle_clipboard_update.
HandleClipboardUpdate ==
    /\ ManagerReady
    /\ clip_chan # <<>>
    /\ LET item == Head(clip_chan)
           r == insert_history(conn, item, now)
       IN /\ clip_chan' = Tail(clip_chan)
          /\ conn' = r.conn
          /\ paste_queue' = QueueAfterCapture(paste_queue, item, is_queue_mode)
          /\ \E cs \in refresh_history(r.conn) :
               calls' =
                 IF is_queue_mode
                 THEN <<Call("show_notification",
                             "Added to queue. Size: "
                               \o ToString(Len(paste_queue')))>> \o cs
                 ELSE cs
    /\ UNCHANGED <<is_queue_mode, pc, cur>>
    /\ UNCHANGED <<clipboard, cmd_chan, monitorVars, now>>

\* select! takes the command at the head of the command channel.
Takes(op) ==
    /\ ManagerReady
    /\ cmd_chan # <<>>
    /\ Head(cmd_chan).op = op
    /\ cmd_chan' = Tail(cmd_chan)
    /\ UNCHANGED <<clipboard, clip_chan, monitorVars, now>>

\* Manager::perform_paste up to its sleep: the window is asked to hide.
BeginPaste(item, origin) ==
    /\ calls' = <<Call("hide_window", <<>>)>>
    /\ cur' = Some([item |-> item, origin |-> origin])
    /\ pc' = "sleep"

\* AppCommand::PasteItem(id)
HandlePasteItem ==
    /\ Takes("PasteItem")
    /\ LET found == get_item_by_id(conn, Head(cmd_chan).arg)
       IN IF found.ok /\ found.val # None
          THEN BeginPaste(found.val[1], "PasteItem")
          ELSE calls' = <<>> /\ UNCHANGED <<pc, cur>>
    /\ UNCHANGED <<conn, paste_queue, is_queue_mode>>

\* AppCommand::DeleteHistory(id)
HandleDeleteHistory_unstage ==
    /\ Takes("DeleteHistory")
    /\ conn' = delete_history(conn, Head(cmd_chan).arg).conn
    /\ \E cs \in refresh_history(conn') : calls' = cs
    /\ paste_queue' =
         SelectSeq(paste_queue,
                   LAMBDA item : RowsWithHash(conn', item.content_hash) # {})
    /\ UNCHANGED <<is_queue_mode, pc, cur>>

HandleDeleteHistory ==
    /\ Takes("DeleteHistory")
    /\ conn' = delete_history(conn, Head(cmd_chan).arg).conn
    /\ \E cs \in refresh_history(conn') : calls' = cs
    /\ UNCHANGED <<paste_queue, is_queue_mode, pc, cur>>

\* AppCommand::TogglePin(id)
HandleTogglePin ==
    /\ Takes("TogglePin")
    /\ conn' = toggle_pin(conn, Head(cmd_chan).arg).conn
    /\ \E cs \in refresh_history(conn') : calls' = cs
    /\ UNCHANGED <<paste_queue, is_queue_mode, pc, cur>>

\* query.is_empty()
query_is_empty_trimmed(query) == clean_text(query) = <<>>

query_is_empty(query) == query = <<>>

\* AppCommand::Search(query)
HandleSearch ==
    /\ Takes("Search")
    /\ LET query == Head(cmd_chan).arg
       IN IF query_is_empty(query)
          THEN \E cs \in refresh_history(conn) : calls' = cs
          ELSE \E results \in search_history(conn, query) :
                 calls' = IF results.ok
                          THEN <<Call("update_search_results", results.val)>>
                          ELSE <<>>
    /\ UNCHANGED <<conn, paste_queue, is_queue_mode, pc, cur>>

\* if !enabled { self.paste_queue.clear() }
QueueAfterToggle_keep(queue, enabled) == queue

QueueAfterToggle(queue, enabled) == IF ~enabled THEN <<>> ELSE queue

\* AppCommand::ToggleQueueMode(enabled)
HandleToggleQueueMode ==
    /\ Takes("ToggleQueueMode")
    /\ LET enabled == Head(cmd_chan).arg
       IN /\ is_queue_mode' = enabled
          /\ paste_queue' = QueueAfterToggle(paste_queue, enabled)
          /\ calls' = <<Call("show_notification",
                             "Queue Mode: " \o BoolString(enabled))>>
    /\ UNCHANGED <<conn, pc, cur>>

\* AppCommand::NextQueueItem
HandleNextQueueItem_back ==
    /\ Takes("NextQueueItem")
    /\ IF paste_queue # <<>>
       THEN /\ paste_queue' = SubSeq(paste_queue, 1, Len(paste_queue) - 1)
            /\ BeginPaste(paste_queue[Len(paste_queue)], "NextQueueItem")
       ELSE /\ calls' = <<Call("show_notification", "Queue empty")>>
            /\ UNCHANGED <<paste_queue, pc, cur>>
    /\ UNCHANGED <<conn, is_queue_mode>>

HandleNextQueueItem ==
    /\ Takes("NextQueueItem")
    /\ IF paste_queue # <<>>
       THEN /\ paste_queue' = Tail(paste_queue)
            /\ BeginPaste(Head(paste_queue), "NextQueueItem")
       ELSE /\ calls' = <<Call("show_notification", "Queue empty")>>
            /\ UNCHANGED <<paste_queue, pc, cur>>
    /\ UNCHANGED <<conn, is_queue_mode>>

\* AppCommand::Exit: the loop is left, run returns.
HandleExit_continue ==
    /\ Takes("Exit")
    /\ pc' = "idle"
    /\ calls' = <<>>
    /\ UNCHANGED <<conn, paste_queue, is_queue_mode, cur>>

HandleExit ==
    /\ Takes("Exit")
    /\ pc' = "exited"
    /\ calls' = <<>>
    /\ UNCHANGED <<conn, paste_queue, is_queue_mode, cur>>

\* What perform_paste's clipboard step may do with the item: nothing when
\* Clipboard::new fails or the image file does not open, else one set_text
\* or set_image, which may fail.  Each outcome is the call made, if any, and
\* the clipboard after it.
PasteOutcomes(item, clip, fs) ==
    LET writes ==
          IF item.type_ = TypeImage
          THEN {Call("set_image", f.data) : f \in {g \in fs : g.path = item.content}}
          ELSE {Call("set_text", item.content)}
        Written(w) == IF w.op = "set_image" THEN ClipImage(w.arg)
                      ELSE ClipText(w.arg)
    IN {[made |-> <<>>, clip |-> clip]}
         \cup {[made |-> <<w>>, clip |-> clip] : w \in writes}
         \cup {[made |-> <<w>>, clip |-> Written(w)] : w \in writes}

\* perform_paste after its sleep: the clipboard is written.
PasteWrite ==
    /\ pc = "sleep"
    /\ \E o \in PasteOutcomes(cur[1].item, clipboard, files) :
         /\ clipboard' = o.clip
         /\ calls' = calls \o o.made
    /\ pc' = "keys"
    /\ UNCHANGED <<paste_queue, is_queue_mode, cur>>
    /\ UNCHANGED <<clip_chan, cmd_chan, monitorVars, conn, now>>

\* perform_paste's end: Ctrl+V is typed, whatever the clipboard step did;
\* NextQueueItem then notifies the queue's length.
PasteKeys ==
    /\ pc = "keys"
    /\ calls' =
         Append(calls, Call("key", "Control+v"))
           \o IF cur[1].origin = "NextQueueItem"
              THEN <<Call("show_notification",
                          "Queue Size: " \o ToString(Len(paste_queue)))>>
              ELSE <<>>
    /\ pc' = "idle"
    /\ cur' = None
    /\ UNCHANGED <<paste_queue, is_queue_mode>>
    /\ UNCHANGED <<clipboard, clip_chan, cmd_chan, monitorVars, conn, now>>

\* ---------------------------------------------------------------- the user

\* The user, or another program, puts content on the clipboard.
UserCopy(clip) ==
    /\ clipboard' = clip
    /\ UNCHANGED <<clip_chan, cmd_chan, monitorVars, managerVars, conn, now>>

\* A front-end callback: command_tx.blocking_send(cmd) waits while the
\* channel holds its capacity and fails once the manager has exited.
UserSend(cmd) ==
    /\ ~Closed
    /\ Len(cmd_chan) < CmdCap
    /\ cmd_chan' = Append(cmd_chan, cmd)
    /\ UNCHANGED <<clipboard, clip_chan, monitorVars, managerVars, conn, now>>

\* ------------------------------------- capturing, queueing and replaying

\* The capture at the head of the channel keeps the id sequence and the
\* paste queue within their bounds; one that does not stays in the channel.
CaptureFits ==
    /\ clip_chan # <<>>
    /\ RowsWithHash(conn, Head(clip_chan).content_hash) # {}
         \/ conn.seq < MaxId
    /\ is_queue_mode => Len(paste_queue) < MaxQueue

\* The user sends a command when few enough are waiting.
SendFits == Len(cmd_chan) < CmdBacklog

\* What the user copies: two texts, one of them with blanks around it.
QueueClips == {ClipText(<<"a">>), ClipText(<<SP, "b", SP>>)}

\* The commands the user sends: those that read or write the paste queue.
QueueCommands ==
    {Cmd("NextQueueItem", <<>>)}
      \cup {Cmd("ToggleQueueMode", b) : b \in BOOLEAN}

InitQueue == InitStore

\* The clock stands still: nothing here reads a created_at.
NextQueue ==
    \/ \E clip \in QueueClips :
         UserCopy(clip) /\ UNCHANGED <<concVars, histVars>>
    \/ \E cmd \in QueueCommands :
         SendFits /\ UserSend(cmd) /\ UNCHANGED <<concVars, histVars>>
    \/ MonitorTick(TRUE) /\ UNCHANGED <<concVars, histVars>>
    \/ ManagerStart /\ UNCHANGED <<concVars, histVars>>
    \/ CaptureFits /\ HandleClipboardUpdate /\ UNCHANGED <<concVars, histVars>>
    \/ HandleToggleQueueMode /\ UNCHANGED <<concVars, histVars>>
    \/ HandleNextQueueItem /\ UNCHANGED <<concVars, histVars>>
    \/ PasteWrite /\ UNCHANGED <<concVars, histVars>>
    \/ PasteKeys /\ UNCHANGED <<concVars, histVars>>

SpecQueue == InitQueue /\ [][NextQueue]_vars

IsPrefix(s, t) == Len(s) <= Len(t) /\ SubSeq(t, 1, Len(s)) = s

\* C6: whenever the queue-mode flag is false the paste queue is empty: a
\* capture handled while the flag is false appends nothing, and
\* ToggleQueueMode(false) empties the queue whatever it held.
C6_QueueEmptyWhenOff == ~is_queue_mode => paste_queue = <<>>

\* Queue mode is on, the queue is full, and ToggleQueueMode(false) is the
\* command the manager takes next: handling it clears the flag and the queue.
C6_Witness ==
    /\ is_queue_mode
    /\ Len(paste_queue) = MaxQueue
    /\ ENABLED (/\ HandleToggleQueueMode
                /\ ~is_queue_mode'
                /\ paste_queue' = <<>>)

\* C8: the capture channel never holds more than its capacity; the monitor
\* can take a tick in every state, wherever the manager is; and a tick that
\* finds new content while the channel holds its capacity sets last_hash and
\* leaves the channel as it is.
C8_MonitorNeverBlocks ==
    /\ Len(clip_chan) <= ChanCap
    /\ ENABLED MonitorTick(TRUE)
    /\ Len(clip_chan) = ChanCap /\ NewContent(clipboard, last_hash)
         => ENABLED (/\ MonitorTick(TRUE)
                     /\ clip_chan' = clip_chan
                     /\ last_hash' = compute_hash(Observed(clipboard)))

\* The channel holds its capacity while the manager is inside perform_paste,
\* and the capture the monitor last found is not in it: it was dropped.
C8_Witness ==
    /\ Len(clip_chan) = ChanCap
    /\ pc = "sleep"
    /\ last_hash # <<>>
    /\ last_hash # clip_chan[Len(clip_chan)].content_hash

\* C10: the manager takes one capture or command at a time and handles it
\* to its end: while it is not waiting in select! (before its loop, and
\* inside perform_paste from the hide request to the key injection) no
\* capture and no command leaves its channel and the store, the paste queue
\* and the queue-mode flag stay as they are; arrivals are appended to the
\* channels or dropped.  A step of the waiting manager takes one event from
\* one channel.
C10_OneEventAtATime ==
    [][/\ pc # "idle" =>
            /\ IsPrefix(clip_chan, clip_chan')
            /\ IsPrefix(cmd_chan, cmd_chan')
            /\ UNCHANGED <<conn, paste_queue, is_queue_mode>>
       /\ pc = "idle" =>
            \/ IsPrefix(clip_chan, clip_chan') /\ IsPrefix(cmd_chan, cmd_chan')
            \/ /\ clip_chan # <<>> /\ clip_chan' = Tail(clip_chan)
               /\ cmd_chan' = cmd_chan
            \/ /\ cmd_chan # <<>> /\ cmd_chan' = Tail(cmd_chan)
               /\ clip_chan' = clip_chan]_vars

\* A replay is in flight, its clipboard write done; a capture and a command
\* that arrived meanwhile wait in their channels.
C10_Witness ==
    /\ pc = "keys"
    /\ Len(calls) = 2
    /\ clip_chan # <<>>
    /\ cmd_chan # <<>>

\* ------------------------------------------------ searching and pasting

\* What the user copies: two texts of one word.
CommandClips == {ClipText(<<"a">>), ClipText(<<"b">>)}

\* The commands the user sends: searches with the empty query, with a word
\* and with a blank, and the switch to queue mode.
SearchCommands ==
    {Cmd("Search", q) : q \in {<<>>, <<"a">>, <<SP>>}}
      \cup {Cmd("ToggleQueueMode", TRUE)}

InitSearch == InitStore

\* The clock stands still: nothing here reads a created_at.
NextSearch ==
    \/ \E clip \in CommandClips :
         UserCopy(clip) /\ UNCHANGED <<concVars, histVars>>
    \/ \E cmd \in SearchCommands :
         SendFits /\ UserSend(cmd) /\ UNCHANGED <<concVars, histVars>>
    \/ MonitorTick(TRUE) /\ UNCHANGED <<concVars, histVars>>
    \/ ManagerStart /\ UNCHANGED <<concVars, histVars>>
    \/ CaptureFits /\ HandleClipboardUpdate /\ UNCHANGED <<concVars, histVars>>
    \/ HandleSearch /\ UNCHANGED <<concVars, histVars>>
    \/ HandleToggleQueueMode /\ UNCHANGED <<concVars, histVars>>

SpecSearch == InitSearch /\ [][NextSearch]_vars

\* The commands the user sends: pastes of the first id and of an id no row
\* has, and the switch to queue mode.
PasteCommands ==
    {Cmd("PasteItem", id) : id \in {1, MaxId + 1}}
      \cup {Cmd("ToggleQueueMode", TRUE)}

InitPaste == InitStore

NextPaste ==
    \/ \E clip \in CommandClips :
         UserCopy(clip) /\ UNCHANGED <<concVars, histVars>>
    \/ \E cmd \in PasteCommands :
         SendFits /\ UserSend(cmd) /\ UNCHANGED <<concVars, histVars>>
    \/ MonitorTick(TRUE) /\ UNCHANGED <<concVars, histVars>>
    \/ ManagerStart /\ UNCHANGED <<concVars, histVars>>
    \/ CaptureFits /\ HandleClipboardUpdate /\ UNCHANGED <<concVars, histVars>>
    \/ HandlePasteItem /\ UNCHANGED <<concVars, histVars>>
    \/ HandleToggleQueueMode /\ UNCHANGED <<concVars, histVars>>
    \/ PasteWrite /\ UNCHANGED <<concVars, histVars>>
    \/ PasteKeys /\ UNCHANGED <<concVars, histVars>>

SpecPaste == InitPaste /\ [][NextPaste]_vars

\* The step is the manager taking command op from the channel.
Took(op) ==
    /\ pc = "idle"
    /\ cmd_chan # <<>>
    /\ Head(cmd_chan).op = op
    /\ cmd_chan' = Tail(cmd_chan)

\* Neither the store nor the queue state changes in the step.
StoreAndQueueKept ==
    /\ conn' = conn
    /\ paste_queue' = paste_queue
    /\ is_queue_mode' = is_queue_mode

\* The calls of the sequence cs on operation op.
CallsOn(cs, op) == {i \in 1..Len(cs) : cs[i].op = op}

\* C18 as stated: Search changes neither store nor queue state; with the
\* empty query the history page is pushed; with any other query the result
\* of search_history is pushed to the search-results view.
C18_SearchPushesResults ==
    [][Took("Search") =>
         LET query == Head(cmd_chan).arg
         IN /\ StoreAndQueueKept
            /\ query = <<>> =>
                 \E items \in get_recent_history(conn, HistoryPage, 0) :
                   calls' = <<Call("update_history", items)>>
            /\ query # <<>> =>
                 \E r \in search_history(conn, query) :
                   /\ r.ok
                   /\ calls' = <<Call("update_search_results", r.val)>>]_vars

\* C18, amended: Search changes neither store nor queue state; with the
\* empty query the history page is pushed and no search result; with any
\* other query the history page is not pushed, and the result of
\* search_history is pushed to the search-results view when search_history
\* succeeds, nothing when it fails.
C18_SearchPushesResultsIfOk ==
    [][Took("Search") =>
         LET query == Head(cmd_chan).arg
         IN /\ StoreAndQueueKept
            /\ query = <<>> =>
                 \E items \in get_recent_history(conn, HistoryPage, 0) :
                   calls' = <<Call("update_history", items)>>
            /\ query # <<>> =>
                 \E r \in search_history(conn, query) :
                   calls' = IF r.ok
                            THEN <<Call("update_search_results", r.val)>>
                            ELSE <<>>]_vars

\* A search has pushed a result with a row while the queue holds an entry.
C18_Witness ==
    /\ Len(calls) = 1
    /\ calls[1].op = "update_search_results"
    /\ calls[1].arg # <<>>
    /\ Cardinality(conn.history) = 2
    /\ paste_queue # <<>>

\* The calls of one replay of item started by PasteItem: the hide request,
\* the write of the item's text unless the clipboard cannot be opened, the
\* key chord.
ReplayCalls(item) ==
    {<<Call("hide_window", <<>>), Call("key", "Control+v")>>,
     <<Call("hide_window", <<>>), Call("set_text", item.content),
       Call("key", "Control+v")>>}

\* C19: PasteItem(id) for an id no row has makes no call and changes
\* neither store nor queue state, the manager waiting for the next event;
\* for an id a row has, one replay of that row's item is started, and ends
\* having made the calls of one replay of it.
C19_PasteOnlyWhenPresent ==
    [][/\ Took("PasteItem") =>
           LET id == Head(cmd_chan).arg
           IN /\ StoreAndQueueKept
              /\ id \notin RowIds(conn) =>
                   calls' = <<>> /\ pc' = "idle" /\ cur' = None
              /\ id \in RowIds(conn) =>
                   /\ pc' = "sleep"
                   /\ cur' = Some([item |-> row_to_clipboard_item(RowById(conn, id)),
                                    origin |-> "PasteItem"])
                   /\ calls' = <<Call("hide_window", <<>>)>>
       /\ (pc = "keys" /\ pc' = "idle") =>
           /\ calls' \in ReplayCalls(cur[1].item)
           /\ StoreAndQueueKept]_vars

\* A replay started by PasteItem of the first row wrote its text and typed
\* the chord, queue mode being on with an entry queued.
C19_Witness ==
    /\ pc = "idle"
    /\ calls = <<Call("hide_window", <<>>), Call("set_text", <<"a">>),
                 Call("key", "Control+v")>>
    /\ paste_queue # <<>>

\* --------------------------------------- the queue's handlers, step by step

\* The step is the manager taking the capture at the head of its channel.
TookCapture ==
    /\ pc = "idle"
    /\ clip_chan # <<>>
    /\ clip_chan' = Tail(clip_chan)

\* C16: a step that takes a capture stores it with insert_history and ends
\* with the push of the recent-history page fetched after that; with queue
\* mode off it makes no other call and leaves the FIFO alone; with queue
\* mode on it appends the captured item at the FIFO's back and, before the
\* push, notifies the FIFO's length, the length before plus one.
C16_CaptureStoredAndPushed ==
    [][TookCapture =>
         LET item == Head(clip_chan)
         IN /\ conn' = insert_history(conn, item, now).conn
            /\ RowsWithHash(conn', item.content_hash) # {}
            /\ is_queue_mode' = is_queue_mode
            /\ \E items \in get_recent_history(conn', HistoryPage, 0) :
                 calls'[Len(calls')] = Call("update_history", items)
            /\ ~is_queue_mode =>
                 Len(calls') = 1 /\ paste_queue' = paste_queue
            /\ is_queue_mode =>
                 /\ Len(calls') = 2
                 /\ calls'[1] =
                      Call("show_notification",
                           "Added to queue. Size: "
                             \o ToString(Len(paste_queue) + 1))
                 /\ paste_queue' = Append(paste_queue, item)]_vars

\* A capture was taken in queue mode with an entry queued: the second was
\* appended, its length notified and the page of two rows pushed.
C16_Witness ==
    /\ is_queue_mode
    /\ Len(paste_queue) = 2
    /\ paste_queue[1] # paste_queue[2]
    /\ Len(calls) = 2
    /\ calls[1] = Call("show_notification", "Added to queue. Size: 2")
    /\ calls[2].op = "update_history"
    /\ Len(calls[2].arg) = 2

\* C17: NextQueueItem on a FIFO with an entry removes its front and starts
\* the replay of that entry; the FIFO, the flag and the store stay as they
\* are during the replay, which ends with the calls of one replay and the
\* notification of the FIFO's length, the length before the command minus
\* one.  On an empty FIFO it starts no replay, changes neither FIFO, flag
\* nor store and notifies "Queue empty".
C17_NextQueueItem ==
    [][/\ Took("NextQueueItem") =>
           /\ conn' = conn
           /\ is_queue_mode' = is_queue_mode
           /\ paste_queue # <<>> =>
                /\ paste_queue' = Tail(paste_queue)
                /\ pc' = "sleep"
                /\ cur' = Some([item |-> Head(paste_queue),
                                 origin |-> "NextQueueItem"])
                /\ calls' = <<Call("hide_window", <<>>)>>
           /\ paste_queue = <<>> =>
                /\ paste_queue' = <<>>
                /\ pc' = "idle"
                /\ cur' = None
                /\ calls' = <<Call("show_notification", "Queue empty")>>
       /\ pc \in {"sleep", "keys"} => StoreAndQueueKept
       /\ (pc = "keys" /\ pc' = "idle") =>
           \E rc \in ReplayCalls(cur[1].item) :
             calls' = Append(rc, Call("show_notification",
                                      "Queue Size: "
                                        \o ToString(Len(paste_queue))))]_vars

\* A replay started by NextQueueItem on a FIFO of two different entries
\* has ended: the second entry is left and the length 1 was notified.
C17_Witness ==
    /\ pc = "idle"
    /\ Len(calls) = 4
    /\ calls[2] = Call("set_text", <<"a">>)
    /\ calls[4] = Call("show_notification", "Queue Size: 1")
    /\ paste_queue # <<>>
    /\ paste_queue[1].content = <<"b">>

\* ------------------------------------------------------------- leaving

\* The commands the user sends: the switch to queue mode and Exit.
ExitCommands == {Cmd("ToggleQueueMode", TRUE), Cmd("Exit", <<>>)}

InitExit == InitStore

NextExit ==
    \/ \E clip \in CommandClips :
         UserCopy(clip) /\ UNCHANGED <<concVars, histVars>>
    \/ \E cmd \in ExitCommands :
         UserSend(cmd) /\ UNCHANGED <<concVars, histVars>>
    \/ MonitorTick(TRUE) /\ UNCHANGED <<concVars, histVars>>
    \/ ManagerStart /\ UNCHANGED <<concVars, histVars>>
    \/ CaptureFits /\ HandleClipboardUpdate /\ UNCHANGED <<concVars, histVars>>
    \/ HandleToggleQueueMode /\ UNCHANGED <<concVars, histVars>>
    \/ HandleExit /\ UNCHANGED <<concVars, histVars>>

SpecExit == InitExit /\ [][NextExit]_vars

\* C15: the step that takes Exit ends the loop, with no call and no change
\* of store or queue state; from then on the loop stays ended, no capture
\* and no command leaves its channel, and store, FIFO, flag and the calls
\* made stay as they are.
C15_ExitStopsTheLoop ==
    [][/\ Took("Exit") =>
           /\ pc' = "exited"
           /\ calls' = <<>>
           /\ clip_chan' = clip_chan
           /\ StoreAndQueueKept
       /\ pc = "exited" =>
           /\ pc' = "exited"
           /\ calls' = calls
           /\ clip_chan' = clip_chan
           /\ cmd_chan' = cmd_chan
           /\ StoreAndQueueKept]_vars

\* The loop has ended with a capture and a command left in the channels,
\* the clipboard holding content no tick has observed.
C15_Witness ==
    /\ pc = "exited"
    /\ clip_chan # <<>>
    /\ cmd_chan # <<>>
    /\ paste_queue # <<>>
    /\ clipboard # ClipNone
    /\ last_hash # compute_hash(Observed(clipboard))

\* ------------------------------------------------ a user following a script

TextX == <<"x">>
TextY == <<"y">>
TextZ == <<"z">>

Step(do, arg) == [do |-> do, arg |-> arg]

\* A tick has seen what the clipboard holds.
ClipboardObserved ==
    clipboard = ClipNone \/ last_hash = compute_hash(Observed(clipboard))

\* Every capture and every command has been handled.
Quiet ==
    /\ ClipboardObserved
    /\ clip_chan = <<>>
    /\ cmd_chan = <<>>
    /\ pc = "idle"

\* What the user waits for before the next step.
Awaited(what) == IF what = "observed" THEN ClipboardObserved ELSE Quiet

\* "queue": queue mode is switched on, three texts are copied, each once
\* the one before it has been captured and handled, and then NextQueueItem
\* is sent four times.  "aba": a text is copied, then another, then the
\* first again, each once a tick has observed the one before it.
Scripts ==
    {[name |-> "queue",
      todo |-> <<Step("send", Cmd("ToggleQueueMode", TRUE)),
                 Step("await", "handled"),
                 Step("copy", ClipText(TextX)),
                 Step("await", "handled"),
                 Step("copy", ClipText(TextY)),
                 Step("await", "handled"),
                 Step("copy", ClipText(TextZ)),
                 Step("await", "handled"),
                 Step("send", Cmd("NextQueueItem", <<>>)),
                 Step("send", Cmd("NextQueueItem", <<>>)),
                 Step("send", Cmd("NextQueueItem", <<>>)),
                 Step("send", Cmd("NextQueueItem", <<>>))>>],
     [name |-> "aba",
      todo |-> <<Step("copy", ClipText(TextX)),
                 Step("await", "observed"),
                 Step("copy", ClipText(TextY)),
                 Step("await", "observed"),
                 Step("copy", ClipText(TextX)),
                 Step("await", "observed")>>]}

ScriptCopy ==
    /\ script.todo # <<>>
    /\ Head(script.todo).do = "copy"
    /\ UserCopy(Head(script.todo).arg)
    /\ script' = [script EXCEPT !.todo = Tail(@)]
    /\ UNCHANGED <<attempts, replayed, concVars>>

ScriptSend ==
    /\ script.todo # <<>>
    /\ Head(script.todo).do = "send"
    /\ UserSend(Head(script.todo).arg)
    /\ script' = [script EXCEPT !.todo = Tail(@)]
    /\ UNCHANGED <<attempts, replayed, concVars>>

ScriptAwait ==
    /\ script.todo # <<>>
    /\ Head(script.todo).do = "await"
    /\ Awaited(Head(script.todo).arg)
    /\ script' = [script EXCEPT !.todo = Tail(@)]
    /\ UNCHANGED <<attempts, replayed, concVars, sysVars, conn, now>>

\* The tick, and the fingerprint it called try_send for, if it did.
ScriptTick ==
    /\ MonitorTick(TRUE)
    /\ attempts' = IF TickSends(TRUE)
                   THEN Append(attempts, compute_hash(Observed(clipboard)))
                   ELSE attempts
    /\ UNCHANGED <<script, replayed, concVars>>

\* NextQueueItem, and what it did: the content perform_paste was called
\* with, or None.
ScriptNextQueueItem ==
    /\ HandleNextQueueItem
    /\ replayed' = Append(replayed, IF pc' = "sleep"
                                    THEN Some(cur'[1].item.content)
                                    ELSE None)
    /\ UNCHANGED <<script, attempts, concVars>>

InitScript ==
    /\ conn = init_schema
    /\ now = 0
    /\ lock = None
    /\ th = [t \in Threads |-> ThreadIdle]
    /\ InitSystem
    /\ script \in Scripts
    /\ attempts = <<>>
    /\ replayed = <<>>

NextScript ==
    \/ ClockTick /\ UNCHANGED <<conn, concVars, sysVars, histVars>>
    \/ ScriptCopy
    \/ ScriptSend
    \/ ScriptAwait
    \/ ScriptTick
    \/ ScriptNextQueueItem
    \/ ManagerStart /\ UNCHANGED <<concVars, histVars>>
    \/ HandleClipboardUpdate /\ UNCHANGED <<concVars, histVars>>
    \/ HandleToggleQueueMode /\ UNCHANGED <<concVars, histVars>>
    \/ PasteWrite /\ UNCHANGED <<concVars, histVars>>
    \/ PasteKeys /\ UNCHANGED <<concVars, histVars>>

SpecScript == InitScript /\ [][NextScript]_vars

\* The script is at its end and all it sent has been handled.
ScriptEnded(name) ==
    /\ script.name = name
    /\ script.todo = <<>>
    /\ cmd_chan = <<>>
    /\ pc = "idle"

\* C5: after ToggleQueueMode(true) and the capture of X, Y and Z in that
\* order, nothing further being copied, four NextQueueItem commands replay
\* X, then Y, then Z, and the fourth replays nothing, whatever the monitor's
\* ticks do meanwhile.
C5_QueueReplaysInOrder ==
    ScriptEnded("queue") =>
      replayed = <<Some(TextX), Some(TextY), Some(TextZ), None>>

\* C9: for the clipboard contents A, B, A, each observed by a tick, the
\* monitor calls try_send for A, for B and for A again and for nothing
\* else: a tick that finds the content of the tick before it sends nothing,
\* a tick that finds content seen earlier but superseded since sends it.
C9_LastHashOnly ==
    script.name = "aba" =>
      /\ IsPrefix(attempts, <<compute_hash(TextX), compute_hash(TextY),
                              compute_hash(TextX)>>)
      /\ script.todo = <<>> => Len(attempts) = 3

\* The script "aba" is at its end: try_send was called three times and the
\* manager has handled what the channel took, A's row serving both its
\* captures.
C9_Witness ==
    /\ script.name = "aba"
    /\ script.todo = <<>>
    /\ attempts = <<compute_hash(TextX), compute_hash(TextY),
                    compute_hash(TextX)>>
    /\ Quiet
    /\ Cardinality(conn.history) = 2

\* ------------------------------------------------ a blank text in between

Blank == <<SP, SP>>

\* A text is copied and observed, then a blank text, which a tick reads,
\* then the first text again or another text, which a tick reads.
BlankScripts ==
    {[name |-> name,
      todo |-> <<Step("copy", ClipText(TextX)),
                 Step("await", "observed"),
                 Step("copy", ClipText(Blank)),
                 Step("tick", <<>>),
                 Step("copy", ClipText(IF name = "a-blank-a" THEN TextX
                                       ELSE TextY)),
                 Step("tick", <<>>)>>]
       : name \in {"a-blank-a", "a-blank-b"}}

\* A tick the script waits for.
ScriptAwaitedTick ==
    /\ script.todo # <<>>
    /\ Head(script.todo).do = "tick"
    /\ MonitorTick(TRUE)
    /\ attempts' = IF TickSends(TRUE)
                   THEN Append(attempts, compute_hash(Observed(clipboard)))
                   ELSE attempts
    /\ script' = [script EXCEPT !.todo = Tail(@)]
    /\ UNCHANGED <<replayed, concVars>>

InitBlank ==
    /\ conn = init_schema
    /\ now = 0
    /\ lock = None
    /\ th = [t \in Threads |-> ThreadIdle]
    /\ InitSystem
    /\ script \in BlankScripts
    /\ attempts = <<>>
    /\ replayed = <<>>

NextBlank ==
    \/ ClockTick /\ UNCHANGED <<conn, concVars, sysVars, histVars>>
    \/ ScriptCopy
    \/ ScriptAwait
    \/ ScriptAwaitedTick
    \/ ScriptTick
    \/ ManagerStart /\ UNCHANGED <<concVars, histVars>>
    \/ HandleClipboardUpdate /\ UNCHANGED <<concVars, histVars>>

SpecBlank == InitBlank /\ [][NextBlank]_vars

\* The clipboard holds text that is empty once trimmed.
BlankOnClipboard ==
    clipboard.kind = "text" /\ clean_text(clipboard.data) = <<>>

\* C20: while the clipboard holds blank text no tick calls try_send or
\* changes last_hash; so with A, blank, A on the clipboard try_send is
\* called for the first A only, and with A, blank, B it is called for A
\* and for B.
C20_BlankTextSkipped ==
    /\ [][BlankOnClipboard =>
            /\ last_hash' = last_hash
            /\ attempts' = attempts
            /\ Len(clip_chan') <= Len(clip_chan)]_vars
    /\ [](script.name = "a-blank-a" =>
            IsPrefix(attempts, <<compute_hash(TextX)>>))
    /\ [](script.name = "a-blank-b" =>
            /\ IsPrefix(attempts, <<compute_hash(TextX), compute_hash(TextY)>>)
            /\ script.todo = <<>> => Len(attempts) = 2)

\* A, blank, B were on the clipboard, each read by a tick: try_send was
\* called for A and B, B's fingerprint is the last observed and both rows
\* are stored.
C20_Witness ==
    /\ script.name = "a-blank-b"
    /\ script.todo = <<>>
    /\ attempts = <<compute_hash(TextX), compute_hash(TextY)>>
    /\ last_hash = compute_hash(TextY)
    /\ Cardinality(conn.history) = 2

\* A, blank, A were on the clipboard, each read by a tick: try_send was
\* called once.
C20_WitnessSuppressed ==
    /\ script.name = "a-blank-a"
    /\ script.todo = <<>>
    /\ attempts = <<compute_hash(TextX)>>
    /\ clipboard = ClipText(TextX)

\* ------------------------------------------- an image copied a second time

\* tokio::time::sleep(Duration::from_millis(500)) before each tick.
PollMillis == 500

ImageA == <<"p">>
ImageB == <<"q">>

\* An image is copied, then a text or another image, then the first image
\* again, each once a tick has observed what was copied before it.
ImageScripts ==
    {[name |-> "image-" \o other.kind,
      todo |-> <<Step("copy", ClipImage(ImageA)),
                 Step("await", "observed"),
                 Step("copy", other),
                 Step("await", "observed"),
                 Step("copy", ClipImage(ImageA)),
                 Step("await", "observed"),
                 Step("await", "handled")>>]
       : other \in {ClipText(TextX), ClipImage(ImageB)}}

\* The ticks made in the current second.
TicksNow == {i \in 1..Len(attempts) : attempts[i].at = now}

\* The sleep before a tick is over: ticks are PollMillis or more apart, so a
\* second of the clock has no more than 1000 / PollMillis of them.
Slept == Cardinality(TicksNow) < 1000 \div PollMillis

\* The tick, once the sleep is over, and the second it ran in with the item
\* it called try_send for, if it did.
ImageTick(saved) ==
    /\ Slept
    /\ MonitorTick(saved)
    /\ attempts' =
         Append(attempts,
                [at |-> now,
                 item |-> IF ~TickSends(saved) THEN None
                          ELSE IF clipboard.kind = "text"
                          THEN Some(CapturedItem(TypeText, Observed(clipboard),
                                  compute_hash(Observed(clipboard)), now))
                          ELSE Some(CapturedItem(TypeImage, ImagePath(now),
                                  compute_hash(Observed(clipboard)), now))])
    /\ UNCHANGED <<script, replayed, concVars>>

InitImages ==
    /\ conn = init_schema
    /\ now = 0
    /\ lock = None
    /\ th = [t \in Threads |-> ThreadIdle]
    /\ InitSystem
    /\ script \in ImageScripts
    /\ attempts = <<>>
    /\ replayed = <<>>

NextImages ==
    \/ ClockTick /\ UNCHANGED <<conn, concVars, sysVars, histVars>>
    \/ ScriptCopy
    \/ ScriptAwait
    \/ \E saved \in BOOLEAN : ImageTick(saved)
    \/ ManagerStart /\ UNCHANGED <<concVars, histVars>>
    \/ HandleClipboardUpdate /\ UNCHANGED <<concVars, histVars>>

SpecImages == InitImages /\ [][NextImages]_vars

\* The ticks that called try_send for an item with fingerprint hash.
CapturesOf(hash) ==
    {i \in 1..Len(attempts) :
       attempts[i].item # None /\ attempts[i].item[1].content_hash = hash}

FilePaths == {f.path : f \in files}

\* C14: two captures of the same image, the image observed, superseded by
\* other content and observed again, write two different cache files, both
\* on disk, and once the captures are handled history has exactly one row
\* with the image's fingerprint.
C14_TwoFilesOneRow ==
    \A i, j \in CapturesOf(compute_hash(ImageA)) :
      i < j =>
        /\ attempts[i].item[1].content # attempts[j].item[1].content
        /\ {attempts[i].item[1].content, attempts[j].item[1].content}
             \subseteq FilePaths
        /\ Quiet =>
             Cardinality(RowsWithHash(conn, compute_hash(ImageA))) = 1

\* The image was captured twice with a text between, all is handled: two
\* files hold the image and one row has its fingerprint.
C14_Witness ==
    /\ script.name = "image-text"
    /\ script.todo = <<>>
    /\ Cardinality(CapturesOf(compute_hash(ImageA))) = 2
    /\ Cardinality({f \in files : f.data = ImageA}) = 2
    /\ Cardinality(RowsWithHash(conn, compute_hash(ImageA))) = 1
    /\ Cardinality(conn.history) = 2

\* ------------------------------------------- a replay the monitor observes

\* "paste": X and Y are copied, each captured and handled, and the row of
\* X is pasted.  "next": the same in queue mode, X replayed from the queue.
\* "deleted": as "next", the row of X deleted before the replay.
\* "lost": an image is copied, its cache file is lost and its row pasted.
\* Each script ends once all is handled and a tick has read what the
\* clipboard then holds.
ReplayScripts ==
    {[name |-> "paste",
      todo |-> <<Step("copy", ClipText(TextX)),
                 Step("await", "handled"),
                 Step("copy", ClipText(TextY)),
                 Step("await", "handled"),
                 Step("send", Cmd("PasteItem", 1)),
                 Step("await", "handled")>>],
     [name |-> "next",
      todo |-> <<Step("send", Cmd("ToggleQueueMode", TRUE)),
                 Step("await", "handled"),
                 Step("copy", ClipText(TextX)),
                 Step("await", "handled"),
                 Step("copy", ClipText(TextY)),
                 Step("await", "handled"),
                 Step("send", Cmd("NextQueueItem", <<>>)),
                 Step("await", "handled")>>],
     [name |-> "deleted",
      todo |-> <<Step("send", Cmd("ToggleQueueMode", TRUE)),
                 Step("await", "handled"),
                 Step("copy", ClipText(TextX)),
                 Step("await", "handled"),
                 Step("copy", ClipText(TextY)),
                 Step("await", "handled"),
                 Step("send", Cmd("DeleteHistory", 1)),
                 Step("await", "handled"),
                 Step("send", Cmd("NextQueueItem", <<>>)),
                 Step("await", "handled")>>],
     [name |-> "lost",
      todo |-> <<Step("copy", ClipImage(ImageA)),
                 Step("await", "handled"),
                 Step("lose", <<>>),
                 Step("send", Cmd("PasteItem", 1)),
                 Step("await", "handled")>>]}

\* The image cache is emptied behind the program's back: image::open will
\* fail for every path.
ScriptLoseFiles ==
    /\ script.todo # <<>>
    /\ Head(script.todo).do = "lose"
    /\ files' = {}
    /\ script' = [script EXCEPT !.todo = Tail(@)]
    /\ UNCHANGED <<clipboard, last_hash, clip_chan, cmd_chan, managerVars,
                   conn, now, attempts, replayed, concVars>>

InitReplay ==
    /\ conn = init_schema
    /\ now = 0
    /\ lock = None
    /\ th = [t \in Threads |-> ThreadIdle]
    /\ InitSystem
    /\ script \in ReplayScripts
    /\ attempts = <<>>
    /\ replayed = <<>>

NextReplay ==
    \/ ClockTick /\ UNCHANGED <<conn, concVars, sysVars, histVars>>
    \/ ScriptCopy
    \/ ScriptSend
    \/ ScriptAwait
    \/ ScriptTick
    \/ ScriptNextQueueItem
    \/ ScriptLoseFiles
    \/ ManagerStart /\ UNCHANGED <<concVars, histVars>>
    \/ HandleClipboardUpdate /\ UNCHANGED <<concVars, histVars>>
    \/ HandleToggleQueueMode /\ UNCHANGED <<concVars, histVars>>
    \/ HandlePasteItem /\ UNCHANGED <<concVars, histVars>>
    \/ HandleDeleteHistory /\ UNCHANGED <<concVars, histVars>>
    \/ PasteWrite /\ UNCHANGED <<concVars, histVars>>
    \/ PasteKeys /\ UNCHANGED <<concVars, histVars>>

SpecReplay == InitReplay /\ [][NextReplay]_vars

\* The script is at its end, all is handled, and the monitor has called
\* try_send for X, for Y and, having observed the replay's write, for X
\* again.
ReplayObserved(name) ==
    /\ ScriptEnded(name)
    /\ clip_chan = <<>>
    /\ attempts = <<compute_hash(TextX), compute_hash(TextY),
                    compute_hash(TextX)>>

\* C22 as stated: the capture of an observed replay is appended to
\* history as new content, a further row for the replayed entry.
C22_ReplayAppendsRow ==
    ReplayObserved("paste") =>
      /\ Cardinality(conn.history) = 3
      /\ Cardinality({r \in conn.history : r.content = TextX}) = 2

\* C22, amended: the capture of an observed replay goes to insert_history
\* as new content would; the replayed entry's row being there, no row is
\* added: history keeps one row per content, the row of the replayed
\* entry with its id and a created_at not before that of the other row.
C22_ReplayRefreshesRow ==
    ReplayObserved("paste") =>
      /\ Cardinality(conn.history) = 2
      /\ \E rx, ry \in conn.history :
           /\ rx.id = 1 /\ rx.content = TextX
           /\ ry.id = 2 /\ ry.content = TextY
           /\ rx.created_at >= ry.created_at

\* The replay of X was observed and its capture handled at a later second
\* than the capture of Y: the row stored first is the fresher one.
C22_Witness ==
    /\ ReplayObserved("paste")
    /\ \E rx, ry \in conn.history :
         rx.id = 1 /\ ry.id = 2 /\ rx.created_at > ry.created_at

\* C23: a replay of an image entry whose cache file cannot be opened ends
\* having written nothing to the clipboard and typed no key chord, store
\* and queue state as they were, the manager waiting for the next event.
C23_FailedDecodeAborts ==
    [][(/\ pc = "keys"
        /\ pc' = "idle"
        /\ cur[1].item.type_ = TypeImage
        /\ cur[1].item.content \notin FilePaths) =>
          /\ CallsOn(calls', "set_image") = {}
          /\ CallsOn(calls', "key") = {}
          /\ StoreAndQueueKept]_vars

\* The step is the manager taking the capture of an observed replay: in
\* the scripts X is copied once, so the third item the monitor sends is
\* the replayed X, and it is alone in the channel.
TookReplayed ==
    /\ script.name \in {"paste", "next", "deleted"}
    /\ Len(attempts) = 3
    /\ TookCapture
    /\ Head(clip_chan).content = TextX

\* C25 as stated: the capture of an observed replay of a text entry never
\* adds a history row, and in queue mode it appends the replayed entry to
\* the back of the FIFO.
C25_ReplayNeverAddsRow ==
    [][TookReplayed =>
         /\ Cardinality(conn'.history) = Cardinality(conn.history)
         /\ is_queue_mode => paste_queue' = Append(paste_queue, Head(clip_chan))]_vars

\* C25, amended: the capture of an observed replay of a text entry has the
\* fingerprint of the row it came from; while that row exists the capture
\* adds no row and only sets the row's created_at to the time of handling;
\* when the row was deleted meanwhile the capture is stored as a new row
\* with the next id.  In queue mode the same step appends the replayed
\* entry to the back of the FIFO.
C25_ReplayAddsRowOnlyIfDeleted ==
    [][TookReplayed =>
         LET item == Head(clip_chan)
             olds == RowsWithHash(conn, item.content_hash)
         IN /\ item.content_hash = compute_hash(TextX)
            /\ olds # {} =>
                 /\ \A old \in olds : old.content = TextX
                 /\ conn'.history =
                      (conn.history \ olds)
                        \cup {[old EXCEPT !.created_at = now] : old \in olds}
                 /\ conn'.seq = conn.seq
            /\ olds = {} =>
                 /\ Cardinality(conn'.history) = Cardinality(conn.history) + 1
                 /\ conn.history \subseteq conn'.history
                 /\ \E r \in conn'.history :
                      r.id = conn.seq + 1 /\ r.content = TextX
            /\ is_queue_mode => paste_queue' = Append(paste_queue, item)
            /\ ~is_queue_mode => paste_queue' = paste_queue]_vars

\* In queue mode X was replayed from the queue, observed and handled: its
\* row, still the first, is fresher than Y's, and X is back in the FIFO
\* behind Y.
C25_Witness ==
    /\ ReplayObserved("next")
    /\ Cardinality(conn.history) = 2
    /\ \E rx, ry \in conn.history :
         rx.id = 1 /\ ry.id = 2 /\ rx.created_at > ry.created_at
    /\ Len(paste_queue) = 2
    /\ paste_queue[1].content = TextY
    /\ paste_queue[2].content = TextX

----------------------------------------------------------------------------
\* Captures that are lost: the channel is full, or the image is not saved.

\* "full": three texts are copied, each once a tick has observed the one
\* before it, while the manager may be behind; the last stays on the
\* clipboard until every capture is handled, is superseded and copied
\* again.  "unsaved": the same with an image whose save may fail.
LostScripts ==
    {[name |-> "full",
      todo |-> <<Step("copy", ClipText(TextX)),
                 Step("await", "observed"),
                 Step("copy", ClipText(TextY)),
                 Step("await", "observed"),
                 Step("copy", ClipText(TextZ)),
                 Step("await", "observed"),
                 Step("await", "handled"),
                 Step("copy", ClipText(TextY)),
                 Step("await", "observed"),
                 Step("copy", ClipText(TextZ)),
                 Step("await", "handled")>>],
     [name |-> "unsaved",
      todo |-> <<Step("copy", ClipImage(ImageA)),
                 Step("await", "observed"),
                 Step("await", "handled"),
                 Step("copy", ClipText(TextX)),
                 Step("await", "observed"),
                 Step("copy", ClipImage(ImageA)),
                 Step("await", "handled")>>]}

\* The tick, and for a tick that found new content its fingerprint and
\* whether the item went into the channel.
LostTick(saved) ==
    /\ MonitorTick(saved)
    /\ attempts' =
         IF NewContent(clipboard, last_hash)
         THEN Append(attempts,
                     [hash |-> compute_hash(Observed(clipboard)),
                      sent |-> clip_chan' # clip_chan])
         ELSE attempts
    /\ UNCHANGED <<script, replayed, concVars>>

InitLost ==
    /\ conn = init_schema
    /\ now = 0
    /\ lock = None
    /\ th = [t \in Threads |-> ThreadIdle]
    /\ InitSystem
    /\ script \in LostScripts
    /\ attempts = <<>>
    /\ replayed = <<>>

NextLost ==
    \/ ClockTick /\ UNCHANGED <<conn, concVars, sysVars, histVars>>
    \/ ScriptCopy
    \/ ScriptAwait
    \/ \E saved \in BOOLEAN : LostTick(saved)
    \/ ManagerStart /\ UNCHANGED <<concVars, histVars>>
    \/ HandleClipboardUpdate /\ UNCHANGED <<concVars, histVars>>

SpecLost == InitLost /\ [][NextLost]_vars

\* The fingerprints of the captures in the channel and of the rows.
Emitted ==
    {clip_chan[i].content_hash : i \in 1..Len(clip_chan)}
      \cup {r.content_hash : r \in conn.history}

\* A tick that changes the monitor, the cache or the channel can be taken.
TickActs ==
    ENABLED (\E saved \in BOOLEAN :
               /\ MonitorTick(saved)
               /\ <<last_hash, files, clip_chan>>'
                    # <<last_hash, files, clip_chan>>)

\* C26: a tick that finds new content records its fingerprint as
\* last_hash whether or not the item goes into the channel (the channel is
\* full, or the image is not saved); while that content stays on the
\* clipboard no later tick does anything, so two ticks in a row never find
\* the same content new; and a fingerprint is in the channel or in history
\* only if a tick that found it new put its item into the channel, which
\* for lost content is a later tick, after other content was observed.
C26_LostCaptureNotRetried ==
    /\ attempts # <<>> => last_hash = attempts[Len(attempts)].hash
    /\ \A i \in 1..Len(attempts) - 1 : attempts[i].hash # attempts[i + 1].hash
    /\ (clipboard # ClipNone /\ ~NewContent(clipboard, last_hash)) => ~TickActs
    /\ \A h \in Emitted :
         \E i \in 1..Len(attempts) : attempts[i].hash = h /\ attempts[i].sent
    /\ \A f \in files :
         \E i \in 1..Len(attempts) :
           attempts[i].hash = compute_hash(f.data) /\ attempts[i].sent

\* Z was dropped at a full channel, stayed on the clipboard until every
\* capture was handled without reaching history, and has a row only since
\* it was copied again after Y.
C26_Witness ==
    /\ ScriptEnded("full")
    /\ Len(attempts) = 5
    /\ attempts[3] = [hash |-> compute_hash(TextZ), sent |-> FALSE]
    /\ attempts[5] = [hash |-> compute_hash(TextZ), sent |-> TRUE]
    /\ RowsWithHash(conn, compute_hash(TextZ)) # {}

\* Z was dropped at a full channel and is still on the clipboard with every
\* capture handled: it has no row.
C26_WitnessDropped ==
    /\ Quiet
    /\ clipboard = ClipText(TextZ)
    /\ Len(attempts) = 3
    /\ ~attempts[3].sent
    /\ RowsWithHash(conn, compute_hash(TextZ)) = {}
    /\ Cardinality(conn.history) = 2

\* The image's save failed and it is still on the clipboard with the
\* manager idle: no file, no row.
C26_WitnessUnsaved ==
    /\ Quiet
    /\ clipboard = ClipImage(ImageA)
    /\ attempts = <<[hash |-> compute_hash(ImageA), sent |-> FALSE]>>
    /\ files = {}
    /\ conn.history = {}

----------------------------------------------------------------------------
\* Deleting and pinning rows while entries are staged in the FIFO.

\* The commands the user sends: on the first row, which is absent before
\* the first capture and after its deletion, and on the queue.
RowCommands ==
    {Cmd("DeleteHistory", 1), Cmd("TogglePin", 1),
     Cmd("ToggleQueueMode", TRUE), Cmd("NextQueueItem", <<>>)}

InitRows == InitStore

\* The clock stands still: nothing here reads a created_at.  The user sends
\* a command when none is waiting.
NextRows ==
    \/ \E clip \in CommandClips :
         UserCopy(clip) /\ UNCHANGED <<concVars, histVars>>
    \/ \E cmd \in RowCommands :
         cmd_chan = <<>> /\ UserSend(cmd) /\ UNCHANGED <<concVars, histVars>>
    \/ MonitorTick(TRUE) /\ UNCHANGED <<concVars, histVars>>
    \/ ManagerStart /\ UNCHANGED <<concVars, histVars>>
    \/ CaptureFits /\ HandleClipboardUpdate /\ UNCHANGED <<concVars, histVars>>
    \/ HandleDeleteHistory /\ UNCHANGED <<concVars, histVars>>
    \/ HandleTogglePin /\ UNCHANGED <<concVars, histVars>>
    \/ HandleToggleQueueMode /\ UNCHANGED <<concVars, histVars>>
    \/ HandleNextQueueItem /\ UNCHANGED <<concVars, histVars>>
    \/ PasteWrite /\ UNCHANGED <<concVars, histVars>>
    \/ PasteKeys /\ UNCHANGED <<concVars, histVars>>

SpecRows == InitRows /\ [][NextRows]_vars

\* C27: DeleteHistory(id) and TogglePin(id) leave the FIFO and the
\* queue-mode flag as they are and push the recent-history page of the
\* store they leave behind, also when no row has the id; an entry staged in
\* the FIFO whose row is gone is taken from the front by NextQueueItem and
\* replayed like any other.
C27_RowCommandsKeepQueue ==
    [][/\ (Took("DeleteHistory") \/ Took("TogglePin")) =>
           /\ paste_queue' = paste_queue
           /\ is_queue_mode' = is_queue_mode
           /\ pc' = "idle" /\ cur' = None
           /\ \E page \in get_recent_history(conn', HistoryPage, 0) :
                calls' = <<Call("update_history", page)>>
           /\ LET id == Head(cmd_chan).arg
              IN /\ id \notin RowIds(conn) => conn' = conn
                 /\ Took("DeleteHistory") =>
                      conn'.history = {r \in conn.history : r.id # id}
                 /\ Took("TogglePin") => RowIds(conn') = RowIds(conn)
       /\ (/\ Took("NextQueueItem")
           /\ paste_queue # <<>>
           /\ RowsWithHash(conn, Head(paste_queue).content_hash) = {}) =>
           /\ paste_queue' = Tail(paste_queue)
           /\ cur' = Some([item |-> Head(paste_queue),
                            origin |-> "NextQueueItem"])
           /\ pc' = "sleep"
       /\ (/\ pc = "sleep" /\ pc' = "keys"
           /\ cur[1].item.type_ = TypeText
           /\ RowsWithHash(conn, cur[1].item.content_hash) = {}) =>
           /\ clipboard' \in {clipboard, ClipText(cur[1].item.content)}
           /\ clipboard' # clipboard =>
                calls' = Append(calls, Call("set_text", cur[1].item.content))]_vars

\* Two entries were staged, the row of the first was deleted, and
\* NextQueueItem has put the first entry's text on the clipboard; the
\* second entry is left in the FIFO.
C27_Witness ==
    /\ pc = "keys"
    /\ cur # None
    /\ cur[1].origin = "NextQueueItem"
    /\ RowsWithHash(conn, cur[1].item.content_hash) = {}
    /\ calls = <<Call("hide_window", <<>>),
                 Call("set_text", cur[1].item.content)>>
    /\ clipboard = ClipText(cur[1].item.content)
    /\ is_queue_mode
    /\ Len(paste_queue) = 1
    /\ RowsWithHash(conn, paste_queue[1].content_hash) # {}

\* DeleteHistory or TogglePin of an id no row has, on an empty store,
\* pushed the empty page.
C27_WitnessAbsent ==
    /\ conn.seq = 0
    /\ calls = <<Call("update_history", <<>>)>>

\* The row of a staged entry was deleted: the entry is still staged.
C27_WitnessStaged ==
    /\ pc = "idle"
    /\ Len(paste_queue) = 2
    /\ RowsWithHash(conn, paste_queue[1].content_hash) = {}
    /\ calls # <<>> /\ calls[1].op = "update_history"

====
